---- MODULE Spec2Model ----
(***************************************************************************)
(* Model of the eVOLVER control plane (ezirayw/evolver).                    *)
(*                                                                         *)
(* Part 1 (Spec, SpecLive): the serial broadcast engine of                 *)
(* evolver_server.py together with the main broadcast loop of evolver.py.  *)
(* Two threads share running_immediate, running_broadcast, command_queue   *)
(* and the serial port: the event-server loop thread ("server") that runs  *)
(* on_command, and the main thread ("main") that runs broadcast().  The    *)
(* source takes no lock, so the threads interleave at every access of a    *)
(* shared object; each action below is one such access.                    *)
(*                                                                         *)
(* Part 2 (SpecRobot): the fluidic routine engine of robotics_server.py.   *)
(* Routine handlers are tasks of one event loop and interleave only at     *)
(* their await points; the arm callbacks arrive on the SDK's thread.       *)
(*                                                                         *)
(* Part 3 (SpecFrame): the data of one command: the update of the stored   *)
(* value by on_command and the frame, the response and the ACK of          *)
(* serial_communication, field by field.                                   *)
(*                                                                         *)
(* Part 4 (SpecSnake): the data of one influx_snake_helper call: the vial  *)
(* windows, the split of the requested steps into fluidic events, the arm  *)
(* target and the efflux command.                                          *)
(***************************************************************************)
EXTENDS Integers, Sequences, FiniteSets, TLC

(***************************************************************************)
(* Bounds                                                                  *)
(***************************************************************************)
\* number of immediate command events the clients send
MaxImmediate == 2

(***************************************************************************)
(* Part 1: serial broadcast engine                                         *)
(*                                                                         *)
(* Besides the program's state the model keeps observations of what was    *)
(* done: sent (the immediate commands whose frame was written, in order),  *)
(* sent_by (the thread that wrote each), buffered (the immediate commands  *)
(* on_command left in the queue because a broadcast was running), frames   *)
(* and emits (flipped by every frame written and every broadcast event     *)
(* emitted), cyc (the phases and the sleep completed in the current cycle  *)
(* of the main loop), result (what the last broadcast call returned) and   *)
(* swallowed (run_commands caught a serial error in the broadcast phase    *)
(* the main thread is in or has just left).                                *)
(***************************************************************************)
VARIABLES running_immediate, running_broadcast, command_queue,
          broadcast_options, pc, cur, ret, tag, ai, last_time_set,
          next_id, xchg, sent, sent_by, buffered, frames, emits,
          cyc, result, swallowed

svars == <<running_immediate, running_broadcast, command_queue,
           broadcast_options, pc, cur, ret, tag, ai, last_time_set,
           next_id, xchg, sent, sent_by, buffered, frames, emits,
           cyc, result, swallowed>>

(***************************************************************************)
(* Part 2 variables: robotics_status['mode'], robotics_status               *)
(* ['prime_status'], robotics_status['xArm']['arm_state'], the routine      *)
(* handler tasks of the event loop, and the task that is in the middle of   *)
(* a segment (0: none).  did is an observation: what the last step did,    *)
(* of "gcode" (G-code files written), "efflux" (an efflux command sent to  *)
(* the microcontroller), "override" (an override event handled),           *)
(* "request" (a routine event received), "state", "error", "warn" and      *)
(* "connect" (an arm callback ran: a state report, a report with a         *)
(* nonzero error_code, with a nonzero warn_code, a connection report);     *)
(* reply is what a routine handler that ended in the last step sent back;  *)
(* latched tells that the mode has been emergency_stop and no override     *)
(* event has changed it since;                                             *)
(* stop_sent is the set of requests that a stop_robotics call of the last  *)
(* step issued to the print-servers and the arm.                           *)
(***************************************************************************)
VARIABLES mode, prime_status, arm_state, task, loop_owner, did, reply,
          latched, stop_sent

rvars == <<mode, prime_status, arm_state, task, loop_owner, did, reply,
           latched, stop_sent>>

(***************************************************************************)
(* Part 3 variables: one command on its way through on_command,            *)
(* run_commands and serial_communication, with its data.  conf_value is    *)
(* evolver_conf['experimental_params'][param]['value']; fpc the position   *)
(* of the command; value and comm_type its fields; response the line read  *)
(* from the serial port; frame the fields of the frame written (empty: no  *)
(* frame written); acks the ACK frames written; returned what              *)
(* serial_communication returned or raised.                                *)
(***************************************************************************)
VARIABLES conf_value, fpc, value, comm_type, response, frame, acks, returned

fvars == <<conf_value, fpc, value, comm_type, response, frame, acks,
           returned>>

(***************************************************************************)
(* Part 4 variables: the locals of one influx_snake_helper call and its    *)
(* inputs.  pump_conf is the pump configuration (the fluid type of every   *)
(* pump by pump id, and max_steps), data the request; kpc the position of  *)
(* the call; quad counts the quads begun; row_num, x, vial_window,         *)
(* active_pumps, vial_dilution_coordinates, change_row, arm_moved,         *)
(* max_pump_num, fractional_pump_instructions and pump_instructions are    *)
(* the locals of these names; issued lists the pump_instructions of the    *)
(* fluidic events of the current window; emitted is the number of          *)
(* fluid_command calls of the step just taken; result what the handler     *)
(* got from the call.                                                      *)
(***************************************************************************)
VARIABLES pump_conf, data, kpc, quad, row_num, x, vial_window, active_pumps,
          vial_dilution_coordinates, change_row, arm_moved, max_pump_num,
          fractional_pump_instructions, pump_instructions, issued, emitted,
          helper_result

kvars == <<pump_conf, data, kpc, quad, row_num, x, vial_window, active_pumps,
           vial_dilution_coordinates, change_row, arm_moved, max_pump_num,
           fractional_pump_instructions, pump_instructions, issued, emitted,
           helper_result>>

(***************************************************************************)
(* State of one call of OctoPrintInterface.post_gcode_async:                *)
(*   post_gcode_timeout  the post_request_timeout the interface was built  *)
(*                       with                                              *)
(*   ppc                 where the call is: idle, post, sleep, ended       *)
(*   request_attempts    the local counter of the call                     *)
(*   uploads             the POST requests the call has made               *)
(*   post_outcome        how the call ended: returned, or the exception    *)
(***************************************************************************)
VARIABLES post_gcode_timeout, ppc, request_attempts, uploads, post_outcome

pvars == <<post_gcode_timeout, ppc, request_attempts, uploads, post_outcome>>

vars == <<svars, rvars, fvars, kvars, pvars>>

IMMEDIATE == "immediate_command_char"

RECURRING == "recurring_command_char"

Threads == {"server", "main"}

\* the keys of evolver_conf['broadcast_tags']
BroadcastTags == {"pre_reading", "post_reading"}

\* what an immediate command event can be: a well-formed command of a known
\* parameter, a command whose value has the wrong number of fields, and a
\* command that names a parameter missing from experimental_params and
\* carries no value
Kinds == {"ok", "shape", "unknown"}

NoCommand == [type |-> "none", id |-> 0, param |-> "none", kind |-> "ok"]

\* the recurring parameters of a phase, in the iteration order of the
\* parameter map: those of broadcast_tags[tag] for a tag in
\* broadcast_options, those of experimental_params otherwise
RecurringParams(t) ==
    IF t \in BroadcastTags THEN <<"od_led">> ELSE <<"temp", "od_135">>

RecurringCommand(p) ==
    [type |-> RECURRING, id |-> 0, param |-> p, kind |-> "ok"]

ImmediateCommand(i, k) ==
    [type |-> IMMEDIATE, id |-> i, param |-> "pump", kind |-> k]

InitSerial ==
    /\ running_immediate = FALSE
    /\ running_broadcast = FALSE
    /\ command_queue = <<>>
    /\ broadcast_options = {}
    /\ pc = [t \in Threads |-> IF t = "server" THEN "idle" ELSE "m_top"]
    /\ cur = [t \in Threads |-> NoCommand]
    /\ ret = [t \in Threads |-> "none"]
    /\ tag = "none"
    /\ ai = 1
    /\ last_time_set = FALSE
    /\ next_id = 1
    /\ xchg = [t \in Threads |-> "idle"]
    /\ sent = <<>>
    /\ sent_by = <<>>
    /\ buffered = {}
    /\ frames = FALSE
    /\ emits = FALSE
    /\ cyc = <<>>
    /\ result = "none"
    /\ swallowed = FALSE


\* the broadcast_tag argument of the run_commands call a thread is in:
\* on_command passes '', broadcast passes its own tag
TagOf(t) == IF t = "server" THEN "" ELSE tag

\* an exception that leaves run_commands: in on_command it ends the handler
\* task (the event loop goes on), in broadcast it reaches the bare except of
\* the main loop, which falls through to the last_time update
Escape(t) ==
    /\ pc' = [pc EXCEPT ![t] = IF t = "server" THEN "idle" ELSE "m_end"]
    /\ cur' = [cur EXCEPT ![t] = NoCommand]
    /\ ret' = [ret EXCEPT ![t] = "none"]

\* run_commands lines 240-241: the except clause logs the error of the
\* command and the loop goes on
Swallow_Mut(t) ==
    /\ pc' = [pc EXCEPT ![t] = IF t = "server" THEN "idle" ELSE "m_end"]
    /\ cur' = [cur EXCEPT ![t] = NoCommand]
    /\ swallowed' = swallowed

Swallow(t) ==
    /\ pc' = [pc EXCEPT ![t] = "rc_len"]
    /\ cur' = [cur EXCEPT ![t] = NoCommand]
    /\ swallowed' = (swallowed \/ t = "main")

(* on_command, lines 37-67: a command event arrives; the configuration is  *)
(* updated and saved, and an immediate command goes on to line 68          *)
OnCommand ==
    /\ pc["server"] = "idle"
    /\ next_id <= MaxImmediate
    /\ \E k \in Kinds :
          cur' = [cur EXCEPT !["server"] = ImmediateCommand(next_id, k)]
    /\ next_id' = next_id + 1
    /\ pc' = [pc EXCEPT !["server"] = "oc_insert"]
    /\ UNCHANGED <<running_immediate, running_broadcast, command_queue,
                   broadcast_options, ret, tag, ai, last_time_set, xchg,
                   sent, sent_by, buffered, frames, emits, cyc, result>>
    /\ UNCHANGED swallowed
    /\ UNCHANGED <<rvars, fvars, kvars, pvars>>

\* where command_queue.insert(0, ...) puts the command
InsertImmediate_Mut(q, c) == q \o <<c>>

InsertImmediate(q, c) == <<c>> \o q

(* line 68: command_queue.insert(0, command) *)
OnCommandInsert ==
    /\ pc["server"] = "oc_insert"
    /\ command_queue' = InsertImmediate(command_queue, cur["server"])
    /\ pc' = [pc EXCEPT !["server"] = "oc_check"]
    /\ UNCHANGED <<running_immediate, running_broadcast, broadcast_options,
                   cur, ret, tag, ai, last_time_set, next_id, xchg, sent,
                   sent_by, buffered, frames, emits, cyc, result>>
    /\ UNCHANGED swallowed
    /\ UNCHANGED <<rvars, fvars, kvars, pvars>>

(* line 70: if not running_broadcast *)
OnCommandCheck ==
    /\ pc["server"] = "oc_check"
    /\ IF running_broadcast
       THEN /\ pc' = [pc EXCEPT !["server"] = "idle"]
            /\ buffered' = buffered \cup {cur["server"]}
            /\ cur' = [cur EXCEPT !["server"] = NoCommand]
       ELSE /\ pc' = [pc EXCEPT !["server"] = "oc_set"]
            /\ UNCHANGED <<buffered, cur>>
    /\ UNCHANGED <<running_immediate, running_broadcast, command_queue,
                   broadcast_options, ret, tag, ai, last_time_set, next_id,
                   xchg, sent, sent_by, frames, emits, cyc, result>>
    /\ UNCHANGED swallowed
    /\ UNCHANGED <<rvars, fvars, kvars, pvars>>

(* lines 72-73: running_immediate = True; run_commands('', command_queue) *)
OnCommandSet ==
    /\ pc["server"] = "oc_set"
    /\ running_immediate' = TRUE
    /\ pc' = [pc EXCEPT !["server"] = "rc_len"]
    /\ ret' = [ret EXCEPT !["server"] = "oc_clear"]
    /\ cur' = [cur EXCEPT !["server"] = NoCommand]
    /\ UNCHANGED <<running_broadcast, command_queue, broadcast_options, tag,
                   ai, last_time_set, next_id, xchg, sent, sent_by, buffered,
                   frames, emits, cyc, result>>
    /\ UNCHANGED swallowed
    /\ UNCHANGED <<rvars, fvars, kvars, pvars>>

(* line 74: running_immediate = False *)
OnCommandClear ==
    /\ pc["server"] = "oc_clear"
    /\ running_immediate' = FALSE
    /\ pc' = [pc EXCEPT !["server"] = "idle"]
    /\ ret' = [ret EXCEPT !["server"] = "none"]
    /\ UNCHANGED <<running_broadcast, command_queue, broadcast_options, cur,
                   tag, ai, last_time_set, next_id, xchg, sent, sent_by,
                   buffered, frames, emits, cyc, result>>
    /\ UNCHANGED swallowed
    /\ UNCHANGED <<rvars, fvars, kvars, pvars>>

(* run_commands, line 234: while len(command_queue) > 0 *)
RunCommandsLen(t) ==
    /\ pc[t] = "rc_len"
    /\ IF Len(command_queue) > 0
       THEN /\ pc' = [pc EXCEPT ![t] = "rc_pop"]
            /\ ret' = ret
       ELSE /\ pc' = [pc EXCEPT ![t] = ret[t]]
            /\ ret' = [ret EXCEPT ![t] = "none"]
    /\ UNCHANGED <<running_immediate, running_broadcast, command_queue,
                   broadcast_options, cur, tag, ai, last_time_set, next_id,
                   xchg, sent, sent_by, buffered, frames, emits, cyc,
                   result>>
    /\ UNCHANGED swallowed
    /\ UNCHANGED <<rvars, fvars, kvars, pvars>>

(* line 235: command = command_queue.pop(0); on a list the other thread    *)
(* emptied in the meantime pop raises IndexError, which nothing catches    *)
RunCommandsPop(t) ==
    /\ pc[t] = "rc_pop"
    /\ IF Len(command_queue) > 0
       THEN /\ cur' = [cur EXCEPT ![t] = Head(command_queue)]
            /\ command_queue' = Tail(command_queue)
            /\ pc' = [pc EXCEPT ![t] = "rc_write"]
            /\ ret' = ret
       ELSE /\ Escape(t)
            /\ command_queue' = command_queue
    /\ UNCHANGED <<running_immediate, running_broadcast, broadcast_options,
                   tag, ai, last_time_set, next_id, xchg, sent, sent_by,
                   buffered, frames, emits, cyc, result>>
    /\ UNCHANGED swallowed
    /\ UNCHANGED <<rvars, fvars, kvars, pvars>>

(* serial_communication, lines 246-291: build the frame, look up the field *)
(* counts, check the outgoing count and write the frame                    *)
SerialWrite(t) ==
    /\ pc[t] = "rc_write"
    /\ \/ /\ cur[t].kind = "ok"
          /\ frames' = ~frames
          /\ xchg' = [xchg EXCEPT ![t] = "written"]
          /\ IF cur[t].type = IMMEDIATE
             THEN /\ sent' = Append(sent, cur[t].id)
                  /\ sent_by' = Append(sent_by, t)
             ELSE UNCHANGED <<sent, sent_by>>
          /\ pc' = [pc EXCEPT ![t] = "rc_read"]
          /\ UNCHANGED <<cur, ret, swallowed>>
       \* line 286 raises a str, a TypeError that line 240 catches; an
       \* unknown parameter under a tag of broadcast_options has no field
       \* counts (None) and fails the same test; the serial port raises
       \* SerialException (lines 246-247, 290)
       \/ /\ \/ cur[t].kind \in {"shape", "ok"}
             \/ cur[t].kind = "unknown" /\ TagOf(t) \in broadcast_options
          /\ Swallow(t)
          /\ UNCHANGED <<frames, xchg, sent, sent_by, ret>>
       \* line 280: KeyError for an unknown parameter, not caught
       \/ /\ cur[t].kind = "unknown" /\ TagOf(t) \notin broadcast_options
          /\ Escape(t)
          /\ UNCHANGED <<frames, xchg, sent, sent_by, swallowed>>
    /\ UNCHANGED <<running_immediate, running_broadcast, command_queue,
                   broadcast_options, tag, ai, last_time_set, next_id,
                   buffered, emits, cyc, result>>
    /\ UNCHANGED <<rvars, fvars, kvars, pvars>>

(* lines 294-310: read the response and validate it; a failed validation   *)
(* raises EvolverSerialError, which line 240 catches                       *)
SerialRead(t) ==
    /\ pc[t] = "rc_read"
    /\ \E valid \in BOOLEAN :
          IF valid
          THEN /\ xchg' = [xchg EXCEPT ![t] = "read"]
               /\ pc' = [pc EXCEPT ![t] = "rc_ack"]
               /\ UNCHANGED <<cur, swallowed>>
          ELSE /\ xchg' = [xchg EXCEPT ![t] = "idle"]
               /\ Swallow(t)
    /\ UNCHANGED <<running_immediate, running_broadcast, command_queue,
                   broadcast_options, ret, tag, ai, last_time_set, next_id,
                   sent, sent_by, buffered, frames, emits, cyc, result>>
    /\ UNCHANGED <<rvars, fvars, kvars, pvars>>

(* lines 313-327: write the ACK frame and return *)
SerialAck(t) ==
    /\ pc[t] = "rc_ack"
    /\ xchg' = [xchg EXCEPT ![t] = "idle"]
    /\ pc' = [pc EXCEPT ![t] = "rc_len"]
    /\ cur' = [cur EXCEPT ![t] = NoCommand]
    /\ UNCHANGED <<running_immediate, running_broadcast, command_queue,
                   broadcast_options, ret, tag, ai, last_time_set, next_id,
                   sent, sent_by, buffered, frames, emits, cyc, result>>
    /\ UNCHANGED swallowed
    /\ UNCHANGED <<rvars, fvars, kvars, pvars>>

RunCommands(t) ==
    \/ RunCommandsLen(t)
    \/ RunCommandsPop(t)
    \/ SerialWrite(t)
    \/ SerialRead(t)
    \/ SerialAck(t)


(* evolver.py lines 73-76: take the time and the status, test the loop     *)
(* condition; due says whether broadcast_timing has elapsed since          *)
(* last_time (always so while last_time is None)                           *)
MainPoll(due) ==
    /\ pc["main"] = "m_top"
    /\ IF (~last_time_set \/ due) /\ ~running_immediate /\ ~running_broadcast
       THEN pc' = [pc EXCEPT !["main"] = "m_robotics"]
       ELSE pc' = pc
    /\ cyc' = <<>>
    /\ result' = "none"
    /\ tag' = "none"
    /\ UNCHANGED <<running_immediate, running_broadcast, command_queue,
                   broadcast_options, cur, ret, ai, last_time_set, next_id,
                   xchg, sent, sent_by, buffered, frames, emits>>
    /\ UNCHANGED swallowed
    /\ UNCHANGED <<rvars, fvars, kvars, pvars>>

(* line 78: robotics_server.broadcast(); an exception it raises reaches    *)
(* the bare except of line 91                                              *)
MainRoboticsBroadcast ==
    /\ pc["main"] = "m_robotics"
    /\ \E ok \in BOOLEAN :
          IF ok
          THEN /\ pc' = [pc EXCEPT !["main"] = "b_check"]
               /\ tag' = "pre_reading"
          ELSE /\ pc' = [pc EXCEPT !["main"] = "m_end"]
               /\ tag' = tag
    /\ UNCHANGED <<running_immediate, running_broadcast, command_queue,
                   broadcast_options, cur, ret, ai, last_time_set, next_id,
                   xchg, sent, sent_by, buffered, frames, emits, cyc,
                   result>>
    /\ UNCHANGED swallowed
    /\ UNCHANGED <<rvars, fvars, kvars, pvars>>

\* evolver.py lines 80-81, 85-86, 89-90: what the main loop does when a
\* phase returned false (continue: back to the top of the loop)
AfterRefusal_Mut == "m_sleep"

AfterRefusal == "m_top"

(* evolver_server.py lines 348-349: if running_immediate: return False *)
BroadcastCheck_Mut ==
    /\ pc["main"] = "b_check"
    /\ IF running_immediate
       THEN /\ result' = "false"
            /\ running_broadcast' = TRUE
            /\ pc' = [pc EXCEPT !["main"] = AfterRefusal]
       ELSE /\ result' = "none"
            /\ running_broadcast' = running_broadcast
            /\ pc' = [pc EXCEPT !["main"] = "b_set"]
    /\ UNCHANGED <<running_immediate, command_queue,
                   broadcast_options, cur, ret, tag, ai, last_time_set,
                   next_id, xchg, sent, sent_by, buffered, frames,
                   emits, cyc>>
    /\ UNCHANGED swallowed
    /\ UNCHANGED <<rvars, fvars, kvars, pvars>>

BroadcastCheck ==
    /\ pc["main"] = "b_check"
    /\ IF running_immediate
       THEN /\ result' = "false"
            /\ pc' = [pc EXCEPT !["main"] = AfterRefusal]
       ELSE /\ result' = "none"
            /\ pc' = [pc EXCEPT !["main"] = "b_set"]
    /\ UNCHANGED <<running_immediate, running_broadcast, command_queue,
                   broadcast_options, cur, ret, tag, ai, last_time_set,
                   next_id, xchg, sent, sent_by, buffered, frames,
                   emits, cyc>>
    /\ UNCHANGED swallowed
    /\ UNCHANGED <<rvars, fvars, kvars, pvars>>

(* line 350: running_broadcast = True *)
BroadcastSet ==
    /\ pc["main"] = "b_set"
    /\ running_broadcast' = TRUE
    /\ pc' = [pc EXCEPT !["main"] = "b_len"]
    /\ UNCHANGED <<running_immediate, command_queue, broadcast_options, cur,
                   ret, tag, ai, last_time_set, next_id, xchg, sent, sent_by,
                   buffered, frames, emits, cyc, result>>
    /\ swallowed' = FALSE
    /\ UNCHANGED <<rvars, fvars, kvars, pvars>>

(* lines 354-356: run the immediate commands waiting in the queue *)
BroadcastDrain ==
    /\ pc["main"] = "b_len"
    /\ IF Len(command_queue) > 0
       THEN /\ pc' = [pc EXCEPT !["main"] = "rc_len"]
            /\ ret' = [ret EXCEPT !["main"] = "b_options"]
       ELSE /\ pc' = [pc EXCEPT !["main"] = "b_options"]
            /\ ret' = ret
    /\ UNCHANGED <<running_immediate, running_broadcast, command_queue,
                   broadcast_options, cur, tag, ai, last_time_set, next_id,
                   xchg, sent, sent_by, buffered, frames, emits, cyc,
                   result>>
    /\ UNCHANGED swallowed
    /\ UNCHANGED <<rvars, fvars, kvars, pvars>>

(* lines 358-359: the keys of broadcast_tags are appended to               *)
(* broadcast_options; only membership in the list is ever used             *)
BroadcastOptions ==
    /\ pc["main"] = "b_options"
    /\ broadcast_options' = broadcast_options \cup BroadcastTags
    /\ ai' = 1
    /\ pc' = [pc EXCEPT !["main"] = "b_append"]
    /\ UNCHANGED <<running_immediate, running_broadcast, command_queue, cur,
                   ret, tag, last_time_set, next_id, xchg, sent, sent_by,
                   buffered, frames, emits, cyc, result>>
    /\ UNCHANGED swallowed
    /\ UNCHANGED <<rvars, fvars, kvars, pvars>>

(* lines 360-367: one command_queue.append per recurring parameter *)
BroadcastAppend ==
    /\ pc["main"] = "b_append"
    /\ IF ai <= Len(RecurringParams(tag))
       THEN /\ command_queue' =
                  Append(command_queue, RecurringCommand(RecurringParams(tag)[ai]))
            /\ ai' = ai + 1
            /\ UNCHANGED <<pc, ret>>
       ELSE /\ pc' = [pc EXCEPT !["main"] = "rc_len"]
            /\ ret' = [ret EXCEPT !["main"] = "b_emit"]
            /\ ai' = 1
            /\ command_queue' = command_queue
    /\ UNCHANGED <<running_immediate, running_broadcast, broadcast_options,
                   cur, tag, last_time_set, next_id, xchg, sent, sent_by,
                   buffered, frames, emits, cyc, result>>
    /\ UNCHANGED swallowed
    /\ UNCHANGED <<rvars, fvars, kvars, pvars>>

(* lines 372-382: build the broadcast message and emit it *)
BroadcastEmit ==
    /\ pc["main"] = "b_emit"
    /\ emits' = ~emits
    /\ pc' = [pc EXCEPT !["main"] = "b_clear"]
    /\ UNCHANGED <<running_immediate, running_broadcast, command_queue,
                   broadcast_options, cur, ret, tag, ai, last_time_set,
                   next_id, xchg, sent, sent_by, buffered, frames, cyc,
                   result>>
    /\ UNCHANGED swallowed
    /\ UNCHANGED <<rvars, fvars, kvars, pvars>>

(* lines 383-384: running_broadcast = False; return True; then the main    *)
(* loop (evolver.py lines 79-90) goes on to the settle sleep, the next     *)
(* phase or the end of the cycle                                           *)
BroadcastClear ==
    /\ pc["main"] = "b_clear"
    /\ running_broadcast' = FALSE
    /\ result' = "true"
    /\ cyc' = Append(cyc, tag)
    /\ pc' = [pc EXCEPT !["main"] =
                 CASE tag = "pre_reading" -> "m_sleep"
                   [] tag = "" -> "b_check"
                   [] OTHER -> "m_end"]
    /\ tag' = IF tag = "" THEN "post_reading" ELSE tag
    /\ UNCHANGED <<running_immediate, command_queue, broadcast_options, cur,
                   ret, ai, last_time_set, next_id, xchg, sent, sent_by,
                   buffered, frames, emits>>
    /\ UNCHANGED swallowed
    /\ UNCHANGED <<rvars, fvars, kvars, pvars>>

(* evolver.py line 82: time.sleep(15), then broadcast('') *)
MainSettle ==
    /\ pc["main"] = "m_sleep"
    /\ cyc' = Append(cyc, "sleep")
    /\ tag' = ""
    /\ pc' = [pc EXCEPT !["main"] = "b_check"]
    /\ UNCHANGED <<running_immediate, running_broadcast, command_queue,
                   broadcast_options, cur, ret, ai, last_time_set, next_id,
                   xchg, sent, sent_by, buffered, frames, emits, result>>
    /\ UNCHANGED swallowed
    /\ UNCHANGED <<rvars, fvars, kvars, pvars>>

(* evolver.py lines 93-94: last_time = time.time() *)
MainEnd ==
    /\ pc["main"] = "m_end"
    /\ last_time_set' = TRUE
    /\ pc' = [pc EXCEPT !["main"] = "m_top"]
    /\ UNCHANGED <<running_immediate, running_broadcast, command_queue,
                   broadcast_options, cur, ret, tag, ai, next_id, xchg, sent,
                   sent_by, buffered, frames, emits, cyc, result>>
    /\ UNCHANGED swallowed
    /\ UNCHANGED <<rvars, fvars, kvars, pvars>>

ServerStep ==
    \/ OnCommandInsert
    \/ OnCommandCheck
    \/ OnCommandSet
    \/ OnCommandClear
    \/ RunCommands("server")

MainStep ==
    \/ MainRoboticsBroadcast
    \/ BroadcastCheck
    \/ BroadcastSet
    \/ BroadcastDrain
    \/ BroadcastOptions
    \/ BroadcastAppend
    \/ BroadcastEmit
    \/ BroadcastClear
    \/ MainSettle
    \/ MainEnd
    \/ RunCommands("main")

NextSerial ==
    \/ OnCommand
    \/ ServerStep
    \/ MainPoll(TRUE)
    \/ MainPoll(FALSE)
    \/ MainStep


(***************************************************************************)
(* Part 2: fluidic routine engine (robotics_server.py)                     *)
(*                                                                         *)
(* A routine handler is a task of the event loop; an action is the segment *)
(* a task runs between two suspension points (await of an HTTP request, of *)
(* a sleep, of a task group).  The arm callbacks run on the SDK's thread   *)
(* and can fall between the mode test of a helper and the assignments that *)
(* follow it, which is why accepting a request (RoutineRequest) and        *)
(* entering the routine (RoutineEnter) are two actions.                    *)
(***************************************************************************)
\* the fluidic events of one vial window (the largest number of strokes a
\* pump of the window needs), an input of the influx request
MaxEvents == 2

\* the active quads of an influx request
MaxQuads == 1

\* the vial windows of a quad (3 rows of 6 + pump_num - 1 windows in the
\* source), kept small here
NumWindows == 1

\* robotics_conf['check_status_timout']
CheckStatusTimeout == 0

\* the routine handler tasks the event loop can hold at a time
Tasks == {1, 2}

\* the handler task that NextRobot follows
Followed == {1}

\* the keys of robotics_conf['octoprint_instances'], in the order of the
\* dictionary
OctoSeq == <<"octoprint_0", "octoprint_1">>

Octos == {OctoSeq[i] : i \in 1..Len(OctoSeq)}

\* the arm states the SDK reports: 4 (error) and 0, which stands for every
\* other state and for the None the status starts with
ArmStates == {0, 4}

Routines == {"fill_tubing", "prime_influx", "prime_efflux", "influx"}

FreeTask ==
    [pc |-> "free", routine |-> "none", dmode |-> "none", wash |-> FALSE,
     quads |-> 0, windows |-> 0, events |-> 0, nev |-> 0, stage |-> "none",
     arm |-> "none", armstep |-> 0, ups |-> {}, attempts |-> 0,
     estop_seen |-> FALSE]

NoReply == [done |-> "none", routine |-> "none", stopped |-> FALSE]

InitRobot ==
    /\ mode = "idle"
    /\ prime_status = [influx |-> FALSE, efflux |-> FALSE]
    /\ arm_state = 0
    /\ task = [t \in Tasks |-> FreeTask]
    /\ loop_owner = 0
    /\ did = {}
    /\ reply = NoReply
    /\ latched = FALSE
    /\ stop_sent = {}

\* the mode argument of the fluidic_event call of a stage: the wash event
\* of a window (line 831), the events of a window (line 895), the single
\* event of fill_tubing (line 690)
FeMode(st) ==
    CASE st = "wash" -> "wash"
      [] st = "only" -> "fill_tubing"
      [] OTHER -> "influx"

\* the arm_settings of the event of a stage: to the wash station (line 816),
\* to the next window with wash_dry_delay (line 888, first event of a
\* window only), none
ArmOf(st) ==
    CASE st = "wash" -> "plain"
      [] st = "first" -> "delay"
      [] OTHER -> "none"

\* the mode tests of the helpers, lines 558, 631, 664 and 715
Accepts(rt, m, ps) ==
    CASE rt = "fill_tubing" -> m = "idle"
      [] rt = "prime_influx" -> m = "idle" /\ ~ps.influx
      [] rt = "prime_efflux" -> m = "idle" /\ ~ps.efflux
      [] OTHER -> m \in {"idle", "pause"}

\* what the handler of routine r sends back (lines 1066-1141): done is
\* "true", "false" or "error"; "crash" is an exception the handler does not
\* catch, after which nothing is sent back
Reply(r, done) ==
    [done |-> done, routine |-> r.routine, stopped |-> r.estop_seen]

\* every running routine has seen an emergency stop
MarkStopped(tk) ==
    [u \in Tasks |-> IF tk[u].pc # "free"
                     THEN [tk[u] EXCEPT !.estop_seen = TRUE]
                     ELSE tk[u]]

\* the requests stop_robotics issues, in their order (lines 392-395):
\* cancel and disconnect to every print-server, then the arm
StopRequests ==
    [i \in 1..(2 * Len(OctoSeq) + 1) |->
        IF i > 2 * Len(OctoSeq)
        THEN [dev |-> "arm", cmd |-> "disconnect"]
        ELSE [dev |-> OctoSeq[(i + 1) \div 2],
              cmd |-> IF i % 2 = 1 THEN "cancel" ELSE "disconnect"]]

\* the requests issued when the k-th request to a print-server raises
\* OctoPrintError (lines 396-397 leave the loop); k = 0: none raises
Issued(k) ==
    {StopRequests[i] : i \in 1..(IF k = 0 THEN Len(StopRequests) ELSE k)}

\* stop_robotics, lines 387-397
StopRobotics ==
    /\ mode' = "emergency_stop"
    /\ \E k \in 0..(2 * Len(OctoSeq)) : stop_sent' = Issued(k)

\* a step without a stop_robotics call
NoStop == stop_sent' = {}

\* latched: the mode has been emergency_stop and no override event has
\* changed it since
Latch == latched' = (latched \/ mode' = "emergency_stop")

\* the except branches of the helpers (lines 694-697, 832-836, 897-901,
\* 920-923): close the session, stop_robotics, raise HelperEventError,
\* which the handler turns into a record with done = 'error'
Fail_Mut(t) ==
    /\ mode' = mode
    /\ NoStop
    /\ task' = [MarkStopped(task) EXCEPT ![t] = FreeTask]
    /\ reply' = Reply(task[t], "error")

Fail(t) ==
    /\ StopRobotics
    /\ task' = [MarkStopped(task) EXCEPT ![t] = FreeTask]
    /\ reply' = Reply(task[t], "error")

\* fluidic_event lines 481-494: past check_for_pause the mode is set and the
\* aspirate uploads and the arm path are started as one task group
BeginEvent(t, r) ==
    /\ mode' = FeMode(r.stage)
    /\ task' = [task EXCEPT ![t] =
                   [r EXCEPT !.pc = "asp_group", !.arm = ArmOf(r.stage),
                             !.armstep = 0, !.ups = {}, !.attempts = 0]]
    /\ reply' = NoReply
    /\ NoStop

\* check_for_pause (lines 1181-1184): the task waits while the mode is pause
Wait(t, r) ==
    /\ task' = [task EXCEPT ![t] = [r EXCEPT !.pc = "paused"]]
    /\ mode' = mode
    /\ reply' = NoReply
    /\ NoStop

\* check_for_pause in front of a stage (lines 814 and 891)
Proceed_Mut(t, r) == BeginEvent(t, r)

Proceed(t, r) ==
    IF mode = "pause" THEN Wait(t, r) ELSE BeginEvent(t, r)

\* lines 929-933 and 691-693: the routine ends
Finish(t, r) ==
    /\ mode' = "idle"
    /\ task' = [task EXCEPT ![t] = FreeTask]
    /\ reply' = Reply(r, "true")
    /\ NoStop

\* lines 915-927, then the next quad or the end of the routine: the arm is
\* lifted above the last window and, in dilution mode, the efflux command
\* is sent
QuadEnd(t, r) ==
    \E ok \in BOOLEAN :
        IF arm_state = 4 \/ ~ok
        THEN Fail(t) /\ did' = {"hw_fail"}
        ELSE LET e == IF r.dmode = "dilution" THEN {"efflux"} ELSE {} IN
             IF r.quads > 1
             THEN /\ did' = e \cup {"gcode"}
                  /\ BeginEvent(t, [r EXCEPT !.quads = r.quads - 1,
                                      !.windows = NumWindows,
                                      !.events = r.nev,
                                      !.stage = IF r.wash THEN "wash"
                                                ELSE "first"])
             ELSE /\ did' = e
                  /\ Finish(t, r)

\* what follows the event of a stage in influx_snake_helper: the next event
\* of the window, the next window, or the end of the quad
NextStage(r) ==
    CASE r.stage = "wash" -> [r EXCEPT !.stage = "first"]
      [] r.events > 1 -> [r EXCEPT !.stage = "more", !.events = r.events - 1]
      [] r.windows > 1 -> [r EXCEPT !.windows = r.windows - 1,
                                    !.events = r.nev,
                                    !.stage = IF r.wash THEN "wash"
                                              ELSE "first"]
      [] OTHER -> [r EXCEPT !.stage = "quad_end"]

\* a fluidic event returned (line 548)
EventDone(t, r) ==
    IF r.stage = "only"
    THEN Finish(t, r) /\ did' = {}
    ELSE LET n == NextStage(r) IN
         IF n.stage = "quad_end"
         THEN IF mode = "pause"
              THEN Wait(t, n) /\ did' = {}
              ELSE QuadEnd(t, n)
         ELSE /\ did' = {"gcode"}
              /\ Proceed(t, n)

\* all members of the running task group have ended
Joined_Mut(r) ==
    IF r.ups = Octos
    THEN [r EXCEPT !.pc = IF r.pc = "asp_group" THEN "asp_wait"
                          ELSE "disp_wait"]
    ELSE r

Joined(r) ==
    IF r.ups = Octos /\ (r.pc = "disp_group" \/ r.arm = "none" \/ r.armstep = 3)
    THEN [r EXCEPT !.pc = IF r.pc = "asp_group" THEN "asp_wait"
                          ELSE "disp_wait"]
    ELSE r

\* lines 516-526: past check_for_pause the mode is set again and the
\* dispense uploads are started
BeginDispense(t) ==
    /\ task' = [task EXCEPT ![t] =
                   [@ EXCEPT !.pc = "disp_group", !.ups = {}, !.attempts = 0]]
    /\ mode' = FeMode(task[t].stage)
    /\ reply' = NoReply
    /\ NoStop

(* a routine event arrives: the handler calls its helper, which tests the  *)
(* mode (lines 1066-1141 and 558, 631, 664, 715)                           *)
RoutineRequest(t, rt, dm, w, q, n) ==
    /\ loop_owner = 0
    /\ task[t].pc = "free"
    /\ LET r == [FreeTask EXCEPT !.routine = rt]
           Refuse(done) == /\ task' = task
                           /\ loop_owner' = loop_owner
                           /\ reply' = Reply(r, done)
           Accept(a) == /\ task' = [task EXCEPT ![t] = [a EXCEPT !.pc = "enter"]]
                        /\ loop_owner' = t
                        /\ reply' = NoReply
       IN
       CASE rt = "prime_influx" ->
              \* line 1088 passes prime_influx_helper no data argument:
              \* TypeError, which the handler does not catch
              Refuse("crash")
         [] rt = "prime_efflux" ->
              IF Accepts(rt, mode, prime_status)
              THEN Accept(r)
              \* the helper returns None and line 1105 subscripts it
              ELSE Refuse("crash")
         [] rt = "fill_tubing" ->
              IF Accepts(rt, mode, prime_status)
              THEN Accept([r EXCEPT !.stage = "only"])
              ELSE Refuse("false")
         [] OTHER ->
              IF Accepts(rt, mode, prime_status)
              THEN Accept([r EXCEPT !.dmode = dm, !.wash = w, !.quads = q,
                                    !.windows = NumWindows,
                                    !.events = n, !.nev = n,
                                    !.stage = IF w THEN "wash" ELSE "first"])
              ELSE Refuse("false")
    /\ did' = {"request"}
    /\ NoStop
    /\ UNCHANGED <<mode, prime_status, arm_state, latched>>
    /\ UNCHANGED <<svars, fvars, kvars, pvars>>

(* the accepted helper runs to its first suspension point: lines 561-591,  *)
(* 634-655, 667-690 and 716-831/895                                        *)
RoutineEnter(t) ==
    /\ loop_owner = t
    /\ task[t].pc = "enter"
    /\ loop_owner' = 0
    /\ IF task[t].routine = "prime_efflux"
       THEN \* the command is sent (line 655), the helper returns None and
            \* line 1105 subscripts it
            /\ mode' = "priming efflux"
            /\ did' = {"efflux"}
            /\ task' = [task EXCEPT ![t] = FreeTask]
            /\ reply' = Reply(task[t], "crash")
            /\ NoStop
       ELSE IF task[t].routine = "influx" /\ ~task[t].wash
       THEN \* line 720 has set the mode; without the wash step line 868
            \* reads mapped_wash_pump_instructions, which line 821 never
            \* assigned: UnboundLocalError in the first window, outside
            \* every try, which the handler does not catch
            /\ mode' = task[t].dmode
            /\ did' = {}
            /\ task' = [task EXCEPT ![t] = FreeTask]
            /\ reply' = Reply(task[t], "crash")
            /\ NoStop
       ELSE /\ did' = {"gcode"}
            /\ BeginEvent(t, task[t])
    /\ Latch
    /\ UNCHANGED <<prime_status, arm_state>>
    /\ UNCHANGED <<svars, fvars, kvars, pvars>>

(* post_gcode_async of one print-server ends, lines 240-274 *)
UploadDone(t, o) ==
    /\ loop_owner = 0
    /\ task[t].pc \in {"asp_group", "disp_group"}
    /\ o \notin task[t].ups
    /\ \E ok \in BOOLEAN :
          IF ok
          THEN /\ task' = [task EXCEPT ![t] =
                              Joined([task[t] EXCEPT !.ups = @ \cup {o}])]
               /\ mode' = mode
               /\ reply' = NoReply
               /\ NoStop
               /\ did' = {}
          ELSE Fail(t) /\ did' = {"hw_fail"}
    /\ Latch
    /\ UNCHANGED <<prime_status, arm_state, loop_owner>>
    /\ UNCHANGED <<svars, fvars, kvars, pvars>>

(* arm_path, lines 1000-1008: with wash_dry_delay the first move and the   *)
(* other two are separated by a sleep, without it the three moves are one  *)
(* segment; move_arm refuses in emergency_stop and in arm state 4          *)
ArmSegment(t) ==
    /\ loop_owner = 0
    /\ task[t].pc = "asp_group"
    /\ task[t].arm # "none"
    /\ task[t].armstep < 3
    /\ LET k == IF task[t].arm = "plain" THEN 3
                ELSE IF task[t].armstep = 0 THEN 1 ELSE 2
       IN \E ok \in BOOLEAN :
             IF mode = "emergency_stop" \/ arm_state = 4 \/ ~ok
             THEN Fail(t) /\ did' = {"hw_fail"}
             ELSE /\ task' = [task EXCEPT ![t] =
                                 Joined([task[t] EXCEPT !.armstep = @ + k])]
                  /\ mode' = mode
                  /\ reply' = NoReply
                  /\ NoStop
                  /\ did' = {}
    /\ Latch
    /\ UNCHANGED <<prime_status, arm_state, loop_owner>>
    /\ UNCHANGED <<svars, fvars, kvars, pvars>>

\* check_status, lines 433-461: done[o] tells that print-server o reported
\* state Operational, completion >= 100 and the job file name of the phase;
\* the jobs are counted and accept_new_jobs is set when the count is the
\* number of files; an exception of a status request leaves it False
CheckStatus_Mut(done, raised) ==
    ~raised /\ Cardinality({o \in Octos : done[o]}) > 0

CheckStatus(done, raised) ==
    ~raised /\ Cardinality({o \in Octos : done[o]}) = Cardinality(Octos)

(* one round of a wait loop of fluidic_event, lines 498-514 and 530-546,   *)
(* and what follows when the jobs are done: lines 516-526 after the        *)
(* aspirate loop, the return to the helper after the dispense loop;        *)
(* "complete" in did tells that every print-server reported its job done   *)
(* in the status poll of the step                                          *)
Poll(t) ==
    /\ loop_owner = 0
    /\ task[t].pc \in {"asp_wait", "disp_wait"}
    /\ \E done \in [Octos -> BOOLEAN], raised \in BOOLEAN :
          LET seen == IF \A o \in Octos : done[o] THEN {"complete"} ELSE {}
          IN
          CASE ~CheckStatus(done, raised) ->
                 IF task[t].attempts > CheckStatusTimeout
                 THEN Fail(t) /\ did' = seen \cup {"hw_fail"}
                 ELSE /\ task' = [task EXCEPT ![t].attempts = @ + 1]
                      /\ mode' = mode
                      /\ reply' = NoReply
                      /\ NoStop
                      /\ did' = seen
            [] CheckStatus(done, raised) /\ task[t].pc = "asp_wait" ->
                 /\ IF mode = "pause"
                    THEN /\ task' = [task EXCEPT ![t].pc = "disp_paused"]
                         /\ mode' = mode
                         /\ reply' = NoReply
                         /\ NoStop
                    ELSE BeginDispense(t)
                 /\ did' = seen
            [] OTHER -> EventDone(t, task[t])
    /\ Latch
    /\ UNCHANGED <<prime_status, arm_state, loop_owner>>
    /\ UNCHANGED <<svars, fvars, kvars, pvars>>

(* check_for_pause returns: the mode is no longer pause *)
PauseLifted(t) ==
    /\ loop_owner = 0
    /\ task[t].pc \in {"paused", "disp_paused"}
    /\ mode # "pause"
    /\ CASE task[t].pc = "disp_paused" -> BeginDispense(t) /\ did' = {}
         [] task[t].stage = "quad_end" -> QuadEnd(t, task[t])
         [] OTHER -> BeginEvent(t, task[t]) /\ did' = {}
    /\ Latch
    /\ UNCHANGED <<prime_status, arm_state, loop_owner>>
    /\ UNCHANGED <<svars, fvars, kvars, pvars>>

(* on_pause_robotics, line 1045 *)
OnPauseRobotics ==
    /\ loop_owner = 0
    /\ mode' = "pause"
    /\ did' = {}
    /\ reply' = NoReply
    /\ NoStop
    /\ UNCHANGED <<prime_status, arm_state, task, loop_owner, latched>>
    /\ UNCHANGED <<svars, fvars, kvars, pvars>>

(* on_resume_robotics, line 1051 *)
OnResumeRobotics ==
    /\ loop_owner = 0
    /\ mode' = "idle"
    /\ did' = {}
    /\ reply' = NoReply
    /\ NoStop
    /\ UNCHANGED <<prime_status, arm_state, task, loop_owner, latched>>
    /\ UNCHANGED <<svars, fvars, kvars, pvars>>

\* the modes on_override_robotics_status accepts (line 1154); "other"
\* stands for every mode outside the list
OverrideModes == {"idle", "influx", "pause", "other"}

(* on_override_robotics_status, lines 1154-1157 *)
OnOverrideRoboticsStatus(m, set_prime, p) ==
    /\ loop_owner = 0
    /\ mode' = IF m # "other" THEN m ELSE mode
    /\ prime_status' = IF set_prime THEN [influx |-> p, efflux |-> p]
                       ELSE prime_status
    /\ latched' = (latched /\ m = "other")
    /\ did' = {"override"}
    /\ reply' = NoReply
    /\ NoStop
    /\ UNCHANGED <<arm_state, task, loop_owner>>
    /\ UNCHANGED <<svars, fvars, kvars, pvars>>

(* on_stop_robotics, line 1165 *)
OnStopRobotics ==
    /\ loop_owner = 0
    /\ StopRobotics
    /\ task' = MarkStopped(task)
    /\ did' = {}
    /\ reply' = NoReply
    /\ Latch
    /\ UNCHANGED <<prime_status, arm_state, loop_owner>>
    /\ UNCHANGED <<svars, fvars, kvars, pvars>>

(* state_changed_callback, lines 362-365, on the SDK's thread *)
StateChangedCallback(st) ==
    /\ arm_state' = st
    /\ IF st = 4
       THEN StopRobotics /\ task' = MarkStopped(task)
       ELSE NoStop /\ UNCHANGED <<mode, task>>
    /\ did' = {"state"}
    /\ reply' = NoReply
    /\ Latch
    /\ UNCHANGED <<prime_status, loop_owner>>
    /\ UNCHANGED <<svars, fvars, kvars, pvars>>

(* error_warn_change_callback, lines 347-356, on the SDK's thread *)
ErrorWarnChangeCallback_Mut(err, warn) ==
    /\ IF warn # 0
       THEN StopRobotics /\ task' = MarkStopped(task)
       ELSE NoStop /\ UNCHANGED <<mode, task>>
    /\ did' = {c \in {"error", "warn"} :
                  \/ c = "error" /\ err # 0
                  \/ c = "warn" /\ warn # 0}
    /\ reply' = NoReply
    /\ Latch
    /\ UNCHANGED <<prime_status, arm_state, loop_owner>>
    /\ UNCHANGED <<svars, fvars, kvars, pvars>>

ErrorWarnChangeCallback(err, warn) ==
    /\ IF err # 0
       THEN StopRobotics /\ task' = MarkStopped(task)
       ELSE NoStop /\ UNCHANGED <<mode, task>>
    /\ did' = {c \in {"error", "warn"} :
                  \/ c = "error" /\ err # 0
                  \/ c = "warn" /\ warn # 0}
    /\ reply' = NoReply
    /\ Latch
    /\ UNCHANGED <<prime_status, arm_state, loop_owner>>
    /\ UNCHANGED <<svars, fvars, kvars, pvars>>

(* connect_changed_callback, lines 367-371, on the SDK's thread: it stores  *)
(* robotics_status['xArm']['connected'], which nothing reads                *)
ConnectChangedCallback ==
    /\ UNCHANGED mode
    /\ did' = {"connect"}
    /\ reply' = NoReply
    /\ NoStop
    /\ Latch
    /\ UNCHANGED <<prime_status, arm_state, task, loop_owner>>
    /\ UNCHANGED <<svars, fvars, kvars, pvars>>

NextRobot ==
    \/ \E t \in Followed, rt \in Routines \ {"influx"} :
          RoutineRequest(t, rt, "none", FALSE, 0, 0)
    \/ \E t \in Followed, dm \in {"dilution", "vial_setup"}, w \in BOOLEAN,
          q \in 1..MaxQuads, n \in 1..MaxEvents :
          RoutineRequest(t, "influx", dm, w, q, n)
    \/ \E t \in Followed : RoutineEnter(t)
    \/ \E t \in Followed, o \in Octos : UploadDone(t, o)
    \/ \E t \in Followed : ArmSegment(t)
    \/ \E t \in Followed : Poll(t)
    \/ \E t \in Followed : PauseLifted(t)
    \/ OnPauseRobotics
    \/ OnResumeRobotics
    \/ \E m \in OverrideModes, sp \in BOOLEAN, p \in BOOLEAN :
          OnOverrideRoboticsStatus(m, sp, p)
    \/ OnStopRobotics
    \/ \E st \in ArmStates : StateChangedCallback(st)
    \/ \E err \in {0, 1}, warn \in {0, 1} : ErrorWarnChangeCallback(err, warn)
    \/ ConnectChangedCallback

\* the handler task a routine event gets: the first free one
NextTask(t) == \A u \in Tasks : u < t => task[u].pc # "free"

\* routine events arriving while another routine handler is suspended,
\* interleaved with pause, resume and override events
NextPair ==
    \/ \E t \in Tasks :
          NextTask(t) /\ RoutineRequest(t, "fill_tubing", "none", FALSE, 0, 0)
    \/ \E t \in Tasks :
          NextTask(t) /\ RoutineRequest(t, "influx", "dilution", TRUE, 1, 1)
    \/ \E t \in Tasks : RoutineEnter(t)
    \/ \E t \in Tasks, o \in Octos : UploadDone(t, o)
    \/ \E t \in Tasks : ArmSegment(t)
    \/ \E t \in Tasks : Poll(t)
    \/ \E t \in Tasks : PauseLifted(t)
    \/ OnPauseRobotics
    \/ OnResumeRobotics
    \/ \E m \in OverrideModes : OnOverrideRoboticsStatus(m, FALSE, FALSE)

(***************************************************************************)
(* Part 3: the data of a command (evolver_server.py)                       *)
(*                                                                         *)
(* A frame and a response are sequences of fields; the address that opens  *)
(* them and the terminator that closes the response are fields of their    *)
(* own.  The command values of the model are lists.                        *)
(***************************************************************************)
\* evolver_conf['experimental_params'][param]['fields_expected_outgoing']
FieldsOut == 3

\* evolver_conf['experimental_params'][param]['fields_expected_incoming']
FieldsIn == 3

\* evolver_conf[IMMEDIATE], evolver_conf[RECURRING] and the other
\* characters of the protocol
Sentinel(ct) == IF ct = IMMEDIATE THEN "i" ELSE "r"

DataChar == "data"

EchoChar == "echo"

AckChar == "ack"

EndIncoming == "end"

\* the address of the parameter
Address == "adr"

NoReturn == [kind |-> "none", data |-> <<>>]

\* the value lists a command event carries
Values ==
    UNION {[1..n -> {"x", "NaN"}] : n \in 0..FieldsOut}

\* the lines the serial port delivers: a right or wrong address, fields,
\* and a terminator or none
Responses ==
    {a \o f \o e :
        a \in {<<Address>>, <<"x">>, <<>>},
        f \in UNION {[1..n -> {DataChar, EchoChar, "x"}] :
                        n \in 0..(FieldsIn + 1)},
        e \in {<<EndIncoming>>, <<>>}}

InitFrame ==
    /\ conf_value = [i \in 1..(FieldsOut - 1) |-> IF i = 1 THEN "a" ELSE "b"]
    /\ fpc = "idle"
    /\ value = <<>>
    /\ comm_type = "none"
    /\ response = <<>>
    /\ frame = <<>>
    /\ acks = <<>>
    /\ returned = NoReturn

\* on_command line 52, one round of the loop of line 50: a slot whose
\* update is not 'NaN' is assigned; past the end of the stored list the
\* assignment raises IndexError
UpdateSlot_Mut(acc, v, i) ==
    IF acc.raised THEN acc
    ELSE IF i > Len(acc.value) THEN [acc EXCEPT !.raised = TRUE]
    ELSE [acc EXCEPT !.value[i] = v[i]]

UpdateSlot(acc, v, i) ==
    IF acc.raised \/ v[i] = "NaN" THEN acc
    ELSE IF i > Len(acc.value) THEN [acc EXCEPT !.raised = TRUE]
    ELSE [acc EXCEPT !.value[i] = v[i]]

RECURSIVE UpdateLoop(_, _, _)
\* on_command lines 50-52, from slot i on
UpdateLoop(acc, v, i) ==
    IF i > Len(v) THEN acc ELSE UpdateLoop(UpdateSlot(acc, v, i), v, i + 1)

\* on_command lines 48-54 for a list value and a stored list
UpdateValue(stored, v) ==
    UpdateLoop([raised |-> FALSE, value |-> stored], v, 1)

\* serial_communication lines 259-264, one round: field j of the output
\* (field 1 is the command character) that reads 'NaN' is replaced by the
\* stored value of its slot; past the end of the stored list the read raises
\* IndexError
ReplaceSlot(acc, stored, j) ==
    IF acc.raised \/ acc.fields[j] # "NaN" THEN acc
    ELSE IF j - 1 > Len(stored) THEN [acc EXCEPT !.raised = TRUE]
    ELSE [acc EXCEPT !.fields[j] = stored[j - 1]]

RECURSIVE ReplaceLoop(_, _, _)
ReplaceLoop(acc, stored, j) ==
    IF j > Len(acc.fields) THEN acc
    ELSE ReplaceLoop(ReplaceSlot(acc, stored, j), stored, j + 1)

\* serial_communication lines 248-264: the fields of the outgoing frame
BuildOutput(ct, v, stored) ==
    ReplaceLoop([raised |-> FALSE, fields |-> <<Sentinel(ct)>> \o v],
                stored, 1)

\* line 285, len(output) is not fields_expected_outgoing: for the small
\* integers of a field count identity is equality
ShapeOk_Mut(out) == Len(out) <= FieldsOut

ShapeOk(out) == Len(out) = FieldsOut

\* response.find(serial_end_incoming), line 298 (0: not found)
FindEnd(resp) ==
    IF \E k \in 1..Len(resp) : resp[k] = EndIncoming
    THEN CHOOSE k \in 1..Len(resp) :
            /\ resp[k] = EndIncoming
            /\ \A m \in 1..(k - 1) : resp[m] # EndIncoming
    ELSE 0

\* line 302: the response without address and terminator, split at the
\* commas; the split of an empty string is one empty field
ReturnedData(resp) ==
    LET body == SubSeq(resp, 2, Len(resp) - 1)
    IN IF body = <<>> THEN <<"">> ELSE body

\* lines 295-310: the validations of the response, in their order; out is
\* the fields of the frame sent
Validate_Mut(resp, out) ==
    LET rd == ReturnedData(resp) IN
    CASE Len(resp) = 0 \/ resp[1] # Address -> "address"
      [] FindEnd(resp) # Len(resp) -> "terminator"
      [] Len(rd) # FieldsIn -> "count"
      [] rd[1] # DataChar /\ rd[1] # EchoChar -> "sentinel"
      [] OTHER -> "ok"

Validate(resp, out) ==
    LET rd == ReturnedData(resp) IN
    CASE Len(resp) = 0 \/ resp[1] # Address -> "address"
      [] FindEnd(resp) # Len(resp) -> "terminator"
      [] Len(rd) # FieldsIn -> "count"
      [] rd[1] = EchoChar /\ Tail(out) # Tail(rd) -> "echo"
      [] rd[1] # DataChar /\ rd[1] # EchoChar -> "sentinel"
      [] OTHER -> "ok"

\* lines 313-316: the ACK frame
AckFrame ==
    <<Address>> \o [i \in 1..FieldsOut |-> IF i = 1 THEN AckChar ELSE ""]

\* lines 322-327: what serial_communication returns
Returned_Mut(rd) ==
    IF rd[1] = DataChar THEN [kind |-> "data", data |-> rd]
    ELSE [kind |-> "None", data |-> <<>>]

Returned(rd) ==
    IF rd[1] = DataChar THEN [kind |-> "data", data |-> Tail(rd)]
    ELSE [kind |-> "None", data |-> <<>>]

Raised(e) == [kind |-> e, data |-> <<>>]

(* on_command, lines 40-68, for an immediate command with a list value:    *)
(* the stored value is updated and the command is queued, unless the       *)
(* update raised                                                           *)
OnCommandValue(v) ==
    /\ fpc = "idle"
    /\ LET u == UpdateValue(conf_value, v) IN
       /\ conf_value' = u.value
       /\ IF u.raised
          THEN UNCHANGED <<fpc, value, comm_type>>
          ELSE /\ fpc' = "queued"
               /\ value' = v
               /\ comm_type' = IMMEDIATE
    /\ UNCHANGED <<response, frame, acks, returned>>
    /\ UNCHANGED <<svars, rvars, kvars, pvars>>

(* broadcast, lines 365-367: a recurring command is queued with the stored *)
(* value of its parameter                                                  *)
RecurringValue ==
    /\ fpc = "idle"
    /\ fpc' = "queued"
    /\ value' = conf_value
    /\ comm_type' = RECURRING
    /\ UNCHANGED <<conf_value, response, frame, acks, returned>>
    /\ UNCHANGED <<svars, rvars, kvars, pvars>>

(* serial_communication, lines 244-327, for the command run_commands took  *)
(* from the queue; resp is the line the serial port delivers               *)
SerialCommunication(resp) ==
    /\ fpc = "queued"
    /\ fpc' = "done"
    /\ LET out == BuildOutput(comm_type, value, conf_value) IN
       CASE out.raised ->
              /\ returned' = Raised("IndexError")
              /\ UNCHANGED <<response, frame, acks>>
         [] ~out.raised /\ ~ShapeOk(out.fields) ->
              \* line 286 raises a str: TypeError
              /\ returned' = Raised("TypeError")
              /\ UNCHANGED <<response, frame, acks>>
         [] OTHER ->
              /\ frame' = <<Address>> \o out.fields
              /\ response' = resp
              /\ IF Validate(resp, out.fields) = "ok"
                 THEN /\ acks' = Append(acks, AckFrame)
                      /\ returned' = Returned(ReturnedData(resp))
                 ELSE /\ acks' = acks
                      /\ returned' = Raised("EvolverSerialError")
    /\ UNCHANGED <<conf_value, value, comm_type>>
    /\ UNCHANGED <<svars, rvars, kvars, pvars>>

(* run_commands, lines 234-241: the result is kept or the error logged,    *)
(* and the loop goes on with the queue; the command is not put back        *)
RunCommandsNext ==
    /\ fpc = "done"
    /\ fpc' = "idle"
    /\ value' = <<>>
    /\ comm_type' = "none"
    /\ response' = <<>>
    /\ frame' = <<>>
    /\ acks' = <<>>
    /\ returned' = NoReturn
    /\ UNCHANGED conf_value
    /\ UNCHANGED <<svars, rvars, kvars, pvars>>

NextFrame ==
    \/ \E v \in Values : OnCommandValue(v)
    \/ RecurringValue
    \/ \E resp \in Responses : SerialCommunication(resp)
    \/ RunCommandsNext

(***************************************************************************)
(* Part 4: the data of influx_snake_helper (robotics_server.py, lines      *)
(* 702-936): the vial windows of a row, the split of the requested steps   *)
(* of a pump into fluidic events, the arm target and the efflux command.   *)
(* A fluidic event is one step here, that succeeds or raises; the pumps    *)
(* are not primed, and every pump has the same max_steps and is asked the  *)
(* same number of steps for every vial.                                    *)
(***************************************************************************)
\* the largest pump_num of a configuration
MaxPumps == 2

\* the largest max_steps of a configuration
MaxStroke == 2

\* the largest number of steps a request asks of a pump
MaxRequested == 3

FluidTypes == {"media", "drug"}

\* 'done', the value line 865 stores in fractional_pump_instructions
Done == -1

\* line 729
vial_map ==
    << <<0, 1, 2, 3, 4, 5>>, <<11, 10, 9, 8, 7, 6>>,
       <<12, 13, 14, 15, 16, 17>> >>

\* lines 732: the vial coordinates a quad starts with
StartCoordinates == <<-18, 36>>

PumpConfs ==
    {[pump_types |-> ty, max_steps |-> m] :
        ty \in UNION {[1..n -> FluidTypes] : n \in 1..MaxPumps},
        m \in 1..MaxStroke}

Requests(conf) ==
    {[wash |-> w, mode |-> dm, active_quads |-> q, steps |-> st] :
        w \in BOOLEAN, dm \in {"dilution", "vial_setup"}, q \in 1..MaxQuads,
        st \in [1..Len(conf.pump_types) -> 0..MaxRequested]}

NoConf == [pump_types |-> <<>>, max_steps |-> 0]

NoData == [wash |-> FALSE, mode |-> "none", active_quads |-> 0, steps |-> <<>>]

InitSnake ==
    /\ pump_conf = NoConf
    /\ data = NoData
    /\ kpc = "idle"
    /\ quad = 0
    /\ row_num = 0
    /\ x = 0
    /\ vial_window = <<>>
    /\ active_pumps = <<>>
    /\ vial_dilution_coordinates = StartCoordinates
    /\ change_row = FALSE
    /\ arm_moved = FALSE
    /\ max_pump_num = <<>>
    /\ fractional_pump_instructions = <<>>
    /\ pump_instructions = <<>>
    /\ issued = <<>>
    /\ emitted = 0
    /\ helper_result = "none"

\* pump_conf['pump_num']
pump_num == Len(pump_conf.pump_types)

\* lines 759-770: the pumps by pump id, reversed in the middle row; a pump
\* is named by its id + 1
pump_map(row) ==
    [i \in 1..pump_num |-> IF row = 1 THEN pump_num + 1 - i ELSE i]

\* lines 773-780: the flag is True when the pumps have more than one fluid
\* type and False when they have one
uniform_pump_types ==
    Cardinality({pump_conf.pump_types[i] : i \in 1..pump_num}) > 1

\* line 783, which overrides lines 776 and 779
num_vial_windows == 6 + (pump_num - 1)

\* the Python slice s[a:b] of a list, 0 <= a
Slice(s, a, b) ==
    LET hi == IF b < Len(s) THEN b ELSE Len(s) IN
    IF a >= hi THEN <<>> ELSE SubSeq(s, a + 1, hi)

\* lines 789-803 for window x of the row: the vial window and the active
\* pumps that follow from those of the window before
WindowOf(row, w, vw, ap) ==
    LET current_vial_row == vial_map[row + 1] IN
    IF ~uniform_pump_types
    THEN [vial_window |-> Slice(current_vial_row, num_vial_windows * w,
                                num_vial_windows * w + num_vial_windows + 1),
          active_pumps |-> pump_map(row)]
    ELSE IF w < pump_num
    THEN [vial_window |-> Append(vw, current_vial_row[w + 1]),
          active_pumps |-> Append(ap, pump_map(row)[w + 1])]
    ELSE [vial_window |-> IF w < Len(current_vial_row)
                          THEN Append(Tail(vw), current_vial_row[w + 1])
                          ELSE Tail(vw),
          active_pumps |-> IF w >= Len(current_vial_row)
                           THEN Tail(ap) ELSE ap]

\* the pairs (steps, max_steps), steps <= 12 and max_steps <= 6, for which
\* the float expression of line 851 falls one short of steps mod max_steps:
\* int((4/3 - 1) * 3) is int(0.9999999999999998)
FloatLoss ==
    {<<4, 3>>, <<8, 3>>, <<11, 3>>, <<6, 5>>, <<7, 5>>, <<12, 5>>, <<8, 6>>}

\* line 850: int(steps / max_steps)
MaxOf(st, m) == st \div m

\* line 851: int((steps / max_steps - max) * max_steps) in float arithmetic
FractionOf(st, m) ==
    IF <<st, m>> \in FloatLoss THEN (st % m) - 1 ELSE st % m

\* the elements of a list
Elems(s) == {s[i] : i \in 1..Len(s)}

\* the helper leaves with an exception that is not HelperEventError
\* ("crash"), with HelperEventError ("error") or with its record ("true")
Leave(how) ==
    /\ kpc' = "ended"
    /\ helper_result' = how

(* lines 715-734: the request is accepted, the first quad begins *)
SnakeStart(conf, d) ==
    /\ kpc = "idle"
    /\ pump_conf' = conf
    /\ data' = d
    /\ kpc' = "window"
    /\ quad' = 1
    /\ row_num' = 0
    /\ x' = 0
    /\ vial_window' = <<>>
    /\ active_pumps' = <<>>
    /\ vial_dilution_coordinates' = StartCoordinates
    /\ change_row' = FALSE
    /\ emitted' = 0
    /\ UNCHANGED <<arm_moved, max_pump_num, fractional_pump_instructions,
                   pump_instructions, issued, helper_result>>
    /\ UNCHANGED <<svars, rvars, fvars, pvars>>

(* lines 789-811: the vial window and the active pumps of window x *)
Window ==
    /\ kpc = "window"
    /\ LET w == WindowOf(row_num, x, vial_window, active_pumps) IN
       /\ vial_window' = w.vial_window
       /\ active_pumps' = w.active_pumps
    /\ kpc' = IF data.wash THEN "wash" ELSE "split"
    /\ issued' = <<>>
    /\ emitted' = 0
    /\ UNCHANGED <<pump_conf, data, quad, row_num, x,
                   vial_dilution_coordinates, change_row, arm_moved,
                   max_pump_num, fractional_pump_instructions,
                   pump_instructions, helper_result>>
    /\ UNCHANGED <<svars, rvars, fvars, pvars>>

(* lines 814-836: the wash event of the window *)
WashEvent ==
    /\ kpc = "wash"
    /\ \E ok \in BOOLEAN :
          IF ok THEN kpc' = "split" /\ helper_result' = helper_result
          ELSE Leave("error")
    /\ emitted' = 0
    /\ UNCHANGED <<pump_conf, data, quad, row_num, x, vial_window,
                   active_pumps, vial_dilution_coordinates, change_row,
                   arm_moved, max_pump_num, fractional_pump_instructions,
                   pump_instructions, issued>>
    /\ UNCHANGED <<svars, rvars, fvars, pvars>>

(* lines 839-855: for vial i of the window the steps asked of pump         *)
(* active_pumps[i] are split; a window longer than active_pumps reads past *)
(* its end (IndexError, outside every try)                                 *)
SplitSteps ==
    /\ kpc = "split"
    /\ IF Len(vial_window) > Len(active_pumps)
       THEN /\ Leave("crash")
            /\ UNCHANGED <<max_pump_num, fractional_pump_instructions,
                           pump_instructions, arm_moved>>
       ELSE LET used == {active_pumps[i] : i \in 1..Len(vial_window)} IN
            /\ max_pump_num' =
                  [p \in used |-> MaxOf(data.steps[p], pump_conf.max_steps)]
            /\ fractional_pump_instructions' =
                  [p \in used |->
                      FractionOf(data.steps[p], pump_conf.max_steps)]
            /\ pump_instructions' = <<>>
            /\ arm_moved' = FALSE
            /\ kpc' = "event"
            /\ helper_result' = helper_result
    /\ emitted' = 0
    /\ UNCHANGED <<pump_conf, data, quad, row_num, x, vial_window,
                   active_pumps, vial_dilution_coordinates, change_row,
                   issued>>
    /\ UNCHANGED <<svars, rvars, fvars, pvars>>

\* lines 859-865 for one pump: what the pass of the loop leaves in
\* max_pump_num, pump_instructions and fractional_pump_instructions; old is
\* the entry pump_instructions has for the pump, if any
PumpPass(mx, fr, old, m) ==
    LET mx1 == IF mx > 0 THEN mx - 1 ELSE mx
        in1 == IF mx > 0 THEN m ELSE old
    IN [max |-> mx1,
        instruction |-> IF mx1 = 0 THEN fr ELSE in1,
        fraction |-> IF mx1 = 0 THEN Done ELSE fr]

\* lines 880-885: the direction of the arm along the row
RowLogic_Mut(coordinates) == 1

RowLogic(coordinates) == IF coordinates[2] = 18 THEN -1 ELSE 1

\* lines 876-889: the target of the arm for the window
NextCoordinates(coordinates, change) ==
    IF change
    THEN <<coordinates[1], coordinates[2] - 18>>
    ELSE <<coordinates[1] + RowLogic(coordinates) * 18, coordinates[2]>>

(* lines 856-906: one pass of the while loop, with its fluidic event.      *)
(* A pump of active_pumps without an entry in max_pump_num is a KeyError;  *)
(* without the wash step line 868 reads a local never assigned             *)
(* (UnboundLocalError); both leave the helper outside every try.           *)
Event ==
    /\ kpc = "event"
    /\ IF \/ \E p \in Elems(active_pumps) : p \notin DOMAIN max_pump_num
          \/ ~data.wash
       THEN /\ Leave("crash")
            /\ UNCHANGED <<max_pump_num, fractional_pump_instructions,
                           pump_instructions, issued, arm_moved,
                           vial_dilution_coordinates>>
       ELSE LET pass == [p \in Elems(active_pumps) |->
                           PumpPass(max_pump_num[p],
                                    fractional_pump_instructions[p],
                                    IF p \in DOMAIN pump_instructions
                                    THEN pump_instructions[p] ELSE Done,
                                    pump_conf.max_steps)]
                instr == [p \in Elems(active_pumps) |-> pass[p].instruction]
            IN
            /\ max_pump_num' = [p \in Elems(active_pumps) |-> pass[p].max]
            /\ fractional_pump_instructions' =
                  [p \in Elems(active_pumps) |-> pass[p].fraction]
            /\ pump_instructions' = instr
            /\ issued' = Append(issued, instr)
            /\ arm_moved' = TRUE
            /\ vial_dilution_coordinates' =
                  IF arm_moved THEN vial_dilution_coordinates
                  ELSE NextCoordinates(vial_dilution_coordinates, change_row)
            /\ \E ok \in BOOLEAN :
                  IF ~ok THEN Leave("error")
                  ELSE /\ helper_result' = helper_result
                       /\ kpc' = IF \A p \in Elems(active_pumps) :
                                       pass[p].fraction = Done
                                 THEN "advance" ELSE "event"
    /\ emitted' = 0
    /\ UNCHANGED <<pump_conf, data, quad, row_num, x, vial_window,
                   active_pumps, change_row>>
    /\ UNCHANGED <<svars, rvars, fvars, pvars>>

(* lines 908-912 and the loop heads of lines 755 and 789: the next window, *)
(* the next row, or the end of the quad                                    *)
Advance ==
    /\ kpc = "advance"
    /\ IF x + 1 < num_vial_windows
       THEN /\ x' = x + 1
            /\ change_row' = FALSE
            /\ kpc' = "window"
            /\ UNCHANGED <<row_num, vial_window, active_pumps>>
       ELSE /\ change_row' = TRUE
            /\ IF row_num + 1 < Len(vial_map)
               THEN /\ row_num' = row_num + 1
                    /\ x' = 0
                    /\ vial_window' = <<>>
                    /\ active_pumps' = <<>>
                    /\ kpc' = "window"
               ELSE /\ kpc' = "quad_end"
                    /\ UNCHANGED <<row_num, x, vial_window, active_pumps>>
    /\ emitted' = 0
    /\ UNCHANGED <<pump_conf, data, quad, vial_dilution_coordinates,
                   arm_moved, max_pump_num, fractional_pump_instructions,
                   pump_instructions, issued, helper_result>>
    /\ UNCHANGED <<svars, rvars, fvars, pvars>>

\* line 927 under the test of line 926, the mode being data['mode'] since
\* line 918: the number of fluid_command calls
EffluxCommands(m) == IF m = "dilution" THEN 1 ELSE 0

(* lines 914-933: the arm is lifted, the efflux command is sent in         *)
(* dilution mode, and the next quad begins or the helper returns           *)
QuadEndSnake ==
    /\ kpc = "quad_end"
    /\ \E ok \in BOOLEAN :
          IF ~ok
          THEN /\ Leave("error")
               /\ emitted' = 0
               /\ UNCHANGED <<quad, row_num, x, vial_window, active_pumps,
                              vial_dilution_coordinates, change_row>>
          ELSE /\ emitted' = EffluxCommands(data.mode)
               /\ IF quad < data.active_quads
                  THEN /\ quad' = quad + 1
                       /\ row_num' = 0
                       /\ x' = 0
                       /\ vial_window' = <<>>
                       /\ active_pumps' = <<>>
                       /\ vial_dilution_coordinates' = StartCoordinates
                       /\ change_row' = FALSE
                       /\ kpc' = "window"
                       /\ helper_result' = helper_result
                  ELSE /\ Leave("true")
                       /\ UNCHANGED <<quad, row_num, x, vial_window,
                                      active_pumps,
                                      vial_dilution_coordinates, change_row>>
    /\ UNCHANGED <<pump_conf, data, arm_moved, max_pump_num,
                   fractional_pump_instructions, pump_instructions, issued>>
    /\ UNCHANGED <<svars, rvars, fvars, pvars>>

(* the handler has answered (lines 1133-1141); the next request may come *)
SnakeReturn ==
    /\ kpc = "ended"
    /\ pump_conf' = NoConf
    /\ data' = NoData
    /\ kpc' = "idle"
    /\ quad' = 0
    /\ row_num' = 0
    /\ x' = 0
    /\ vial_window' = <<>>
    /\ active_pumps' = <<>>
    /\ vial_dilution_coordinates' = StartCoordinates
    /\ change_row' = FALSE
    /\ arm_moved' = FALSE
    /\ max_pump_num' = <<>>
    /\ fractional_pump_instructions' = <<>>
    /\ pump_instructions' = <<>>
    /\ issued' = <<>>
    /\ emitted' = 0
    /\ helper_result' = "none"
    /\ UNCHANGED <<svars, rvars, fvars, pvars>>

NextSnake ==
    \/ /\ kpc = "idle"
       /\ \E conf \in PumpConfs : \E d \in Requests(conf) :
             SnakeStart(conf, d)
    \/ Window
    \/ WashEvent
    \/ SplitSteps
    \/ Event
    \/ Advance
    \/ QuadEndSnake
    \/ SnakeReturn


(***************************************************************************)
(* Part 5: the upload of a G-code file (OctoPrintInterface)                *)
(***************************************************************************)
\* the largest post_request_timeout of a configuration
MaxPostTimeout == 3

\* the POST requests followed in one call
MaxUploads == 6

\* what one POST can give: a body whose 'done' is true, a body whose 'done'
\* is false, a body without the key 'done' (KeyError), and every other
\* failure (the file cannot be opened, the request or the decoding fails)
PostResponses == {"done", "not_done", "no_key", "failure"}

InitPost ==
    /\ post_gcode_timeout = 0
    /\ ppc = "idle"
    /\ request_attempts = 0
    /\ uploads = 0
    /\ post_outcome = "none"

\* lines 251-253: a call on an interface that was built with the
\* post_request_timeout n (lines 63, 311) starts with request_attempts = 0
PostGcodeAsync(n) ==
    /\ ppc = "idle"
    /\ post_gcode_timeout' = n
    /\ ppc' = "post"
    /\ request_attempts' = 0
    /\ uploads' = 0
    /\ post_outcome' = "none"
    /\ UNCHANGED <<svars, rvars, fvars, kvars>>

\* line 270: the message of the OctoPrintError reads self.robotics_conf,
\* which an OctoPrintInterface does not have (lines 56-65), so building it
\* raises AttributeError inside the KeyError handler, which the except
\* clause of line 273 does not cover
ExhaustedError == "AttributeError"

\* lines 255-274: one pass of the while loop
PostAttempt(resp) ==
    /\ ppc = "post"
    /\ uploads < MaxUploads
    /\ uploads' = uploads + 1
    /\ CASE resp = "done" ->
              /\ ppc' = "ended"
              /\ post_outcome' = "returned"
              /\ UNCHANGED request_attempts
         [] resp = "not_done" ->
              /\ ppc' = "post"
              /\ UNCHANGED <<request_attempts, post_outcome>>
         [] resp = "no_key" ->
              /\ request_attempts' = request_attempts + 1
              /\ IF request_attempts' > post_gcode_timeout
                 THEN /\ ppc' = "ended"
                      /\ post_outcome' = ExhaustedError
                 ELSE /\ ppc' = "sleep"
                      /\ UNCHANGED post_outcome
         [] resp = "failure" ->
              /\ ppc' = "ended"
              /\ post_outcome' = "OctoPrintError"
              /\ UNCHANGED request_attempts
    /\ UNCHANGED post_gcode_timeout
    /\ UNCHANGED <<svars, rvars, fvars, kvars>>

\* line 271: the back-off before the next attempt
PostSleep ==
    /\ ppc = "sleep"
    /\ ppc' = "post"
    /\ UNCHANGED <<post_gcode_timeout, request_attempts, uploads, post_outcome>>
    /\ UNCHANGED <<svars, rvars, fvars, kvars>>

NextPost ==
    \/ \E n \in 0..MaxPostTimeout : PostGcodeAsync(n)
    \/ \E resp \in PostResponses : PostAttempt(resp)
    \/ PostSleep


Init == InitSerial /\ InitRobot /\ InitFrame /\ InitSnake /\ InitPost

SpecPost == Init /\ [][NextPost]_vars

SpecFrame == Init /\ [][NextFrame]_vars

SpecSnake == Init /\ [][NextSnake]_vars

SpecRobot == Init /\ [][NextRobot]_vars

SpecPair == Init /\ [][NextPair]_vars

Spec == Init /\ [][NextSerial]_vars

\* the main loop never stops, the event loop runs every handler it started
\* to its end, and wall-clock time passes, so broadcast_timing elapses
SpecLive ==
    /\ Init
    /\ [][NextSerial]_vars
    /\ WF_vars(MainStep)
    /\ WF_vars(ServerStep)
    /\ WF_vars(MainPoll(TRUE))

(***************************************************************************)
(* Claims on the serial broadcast engine                                   *)
(***************************************************************************)
\* the position of the frame of immediate command i in the order of
\* transmission (0: not transmitted)
SentAt(i) ==
    IF \E k \in 1..Len(sent) : sent[k] = i
    THEN CHOOSE k \in 1..Len(sent) : sent[k] = i
    ELSE 0

\* the main thread is inside a call of broadcast()
InPhase ==
    pc["main"] \in {"b_check", "b_set", "b_len", "b_options", "b_append",
                    "b_emit", "b_clear", "rc_len", "rc_pop", "rc_write",
                    "rc_read", "rc_ack"}

\* C1: running_immediate and running_broadcast are never both true, for
\* every interleaving of on_command with the broadcast calls of the main loop
C1_MutualExclusion == ~(running_immediate /\ running_broadcast)

\* C2: no two serial request/ack exchanges are in progress at the same time:
\* while one thread is between its frame write and its ACK write, the other
\* thread is not
C2_ExclusiveExchange == ~(xchg["server"] # "idle" /\ xchg["main"] # "idle")

\* C6: two well-formed immediate commands c1, c2 received in that order and
\* both buffered while a broadcast was running are transmitted c1 before c2
C6_FifoImmediates ==
    \A c1, c2 \in buffered :
        (c1.kind = "ok" /\ c2.kind = "ok" /\ c1.id < c2.id
             /\ SentAt(c1.id) > 0 /\ SentAt(c2.id) > 0)
        => SentAt(c1.id) < SentAt(c2.id)

\* C7: an immediate command that on_command received while
\* running_broadcast was true, and only enqueued, is eventually transmitted
\* by a broadcast phase, the main loop running on (well-formed commands)
C7_BufferedTransmitted ==
    \A i \in 1..MaxImmediate :
        (ImmediateCommand(i, "ok") \in buffered)
        ~> (SentAt(i) > 0 /\ sent_by[SentAt(i)] = "main")

\* C8: a broadcast call that finds running_immediate true returns False and
\* writes no frame, emits no broadcast event, leaves running_broadcast and
\* the command queue as they are
C8_RefusedBroadcast ==
    [][(pc["main"] = "b_check" /\ running_immediate
          /\ pc'["main"] # "b_check")
       => /\ result' = "false"
          /\ ~InPhase'
          /\ UNCHANGED <<frames, emits, running_broadcast, command_queue,
                         xchg>>]_vars

C8_Witness == result = "false" /\ pc["main"] = "m_top" /\ running_immediate

\* C9: a recurring command is taken from the queue for transmission only
\* when no immediate command is waiting in the queue, so an immediate
\* command enqueued during the recurring pass of a phase is the next command
\* transmitted, ahead of the recurring commands still waiting
C9_ImmediateJumpsRecurring ==
    [][\A t \in Threads :
          (pc[t] = "rc_pop" /\ pc'[t] = "rc_write"
              /\ cur'[t].type = RECURRING)
          => \A k \in 1..Len(command_queue) :
                 command_queue[k].type # IMMEDIATE]_vars

\* an immediate command buffered during the recurring pass of a phase has
\* been taken from the queue while a recurring command of the phase waits
C9_Witness ==
    /\ pc["main"] = "rc_write"
    /\ ret["main"] = "b_emit"
    /\ cur["main"] \in buffered
    /\ Len(command_queue) > 0
    /\ command_queue[1].type = RECURRING

\* C10: within a cycle the phases run in the order pre_reading, settle
\* sleep, data, post_reading: a data phase is entered only after pre_reading
\* returned true and the sleep elapsed, a post_reading phase only after the
\* data phase returned true
C10_PhaseOrder ==
    InPhase =>
        /\ tag = "pre_reading" => cyc = <<>>
        /\ tag = "" => cyc = <<"pre_reading", "sleep">>
        /\ tag = "post_reading" => cyc = <<"pre_reading", "sleep", "">>

C10_Witness ==
    /\ pc["main"] = "b_emit"
    /\ tag = "post_reading"
    /\ cyc = <<"pre_reading", "sleep", "">>

\* a step of the main thread in which the serial exchange of its command
\* ends in an error of serial_communication (shape, validation or I/O)
MainSerialError ==
    /\ pc["main"] \in {"rc_write", "rc_read"}
    /\ pc'["main"] \notin {"rc_write", "rc_read", "rc_ack"}
    /\ ~(cur["main"].kind = "unknown" /\ TagOf("main") \notin broadcast_options)

\* C14: a serial error of a command in a broadcast phase is swallowed: the
\* main thread stays in run_commands of the same broadcast call, which goes
\* on to the emit and the return of true; nothing of the phase is undone
C14_SerialErrorSwallowed ==
    [][MainSerialError =>
          /\ pc'["main"] = "rc_len"
          /\ swallowed'
          /\ UNCHANGED <<running_broadcast, result, emits, tag, cyc,
                         command_queue>>]_vars

\* a pre_reading phase in which an error was swallowed has returned true
\* with running_broadcast cleared, and the loop is on its way to the next
C14_Witness ==
    /\ swallowed
    /\ pc["main"] = "m_sleep"
    /\ result = "true"
    /\ ~running_broadcast
    /\ Len(cyc) > 0 /\ cyc[Len(cyc)] = "pre_reading"

\* C33: running_broadcast stays set from the start of the pre_reading
\* phase to the end of the post_reading phase: it is set while the main
\* thread is in the settle sleep after pre_reading.
C33_FlagHeldThroughCycle ==
    pc["main"] = "m_sleep" => running_broadcast

\* C34: a failed round-trip aborts the run of the queue: in the run of the
\* waiting immediate commands of a broadcast phase, once run_commands has
\* caught an error the main thread writes no further frame in that run.
C34_RunAborted ==
    [][(swallowed /\ ret["main"] = "b_options" /\ pc["main"] = "rc_write")
          => pc'["main"] # "rc_read"]_vars

\* C37: a flag that was set is set back: once the call that set it has
\* ended (the main loop is outside broadcast, the on_command handler has
\* ended), running_broadcast and running_immediate are false, so no later
\* broadcast or immediate command finds a flag left behind.
C37_FlagsReset ==
    /\ pc["main"] \in {"m_top", "m_end"} => ~running_broadcast
    /\ pc["server"] = "idle" => ~running_immediate

\* C40: the robotics status broadcast of a cycle is always followed by the
\* pre_reading phase of that cycle, whatever the status probe gave.
C40_PhasesAfterProbe ==
    [][pc["main"] = "m_robotics"
          => pc'["main"] \in {"m_robotics", "b_check"}]_vars

(***************************************************************************)
(* Claims on the fluidic routine engine                                    *)
(***************************************************************************)
\* C3: once the mode is emergency_stop it stays emergency_stop until an
\* override_robotics_status event changes it: no pause, resume, callback or
\* step of a running routine moves the mode away from emergency_stop
C3_StickyEmergencyStop ==
    [][(mode = "emergency_stop" /\ mode' # "emergency_stop")
       => "override" \in did']_vars

\* C4: an influx routine that was running when the mode became
\* emergency_stop starts no further aspirate or dispense upload, makes no
\* further arm move, and its handler returns done = 'error' with
\* routine = 'influx'
C4_StopEndsInflux ==
    [][\A t \in Tasks :
          (task[t].routine = "influx" /\ task[t].estop_seen)
          => /\ ~(task'[t].pc \in {"asp_group", "disp_group"}
                    /\ task'[t].pc # task[t].pc)
             /\ task'[t].armstep <= task[t].armstep
             /\ (task'[t].pc = "free"
                    => reply'.done = "error" /\ reply'.routine = "influx")]_vars

\* C5: from the moment the mode is emergency_stop until an
\* override_robotics_status event changes the mode, no routine request is
\* accepted: no helper passes its mode test
C5_RefusedUntilOverride ==
    [][latched => \A t \in Tasks :
                     task'[t].pc = "enter" => task[t].pc = "enter"]_vars

\* the modes from which the helper of a routine may start
AllowedModes(rt) == IF rt = "influx" THEN {"idle", "pause"} ELSE {"idle"}

\* a step in which routine t, already running, starts a task group: the
\* aspirate uploads with the arm path, or the dispense uploads
GroupStart(t) ==
    /\ task[t].pc \notin {"free", "enter"}
    /\ task'[t].pc \in {"asp_group", "disp_group"}
    /\ task'[t].pc # task[t].pc

\* C21: while the mode is pause a running routine starts no aspirate group
\* and no dispense group; the group in progress goes on, and a routine that
\* waits in check_for_pause goes on only when the mode is no longer pause
C21_PauseHoldsGroups ==
    [][\A t \in Tasks :
          /\ GroupStart(t) => mode # "pause"
          /\ (task[t].pc \in {"paused", "disp_paused"} /\ mode = "pause")
                => task'[t].pc = task[t].pc]_vars

\* a routine whose aspirate jobs are done waits for the pause to be lifted
C21_Witness ==
    \E t \in Tasks : task[t].pc = "disp_paused" /\ mode = "pause"

\* C16: a routine is accepted only in an allowed mode (idle; idle or pause
\* for influx), and a request in any other mode returns done = false,
\* writes no G-code, sends nothing and leaves robotics_status unchanged
C16_RefusedOutsideAllowedModes ==
    [][\A t \in Tasks :
          /\ (task[t].pc = "free" /\ task'[t].pc = "enter")
                => mode \in AllowedModes(task'[t].routine)
          /\ ("request" \in did' /\ reply' # NoReply
                 /\ mode \notin AllowedModes(reply'.routine))
                => /\ reply'.done = "false"
                   /\ did' = {"request"}
                   /\ UNCHANGED <<mode, prime_status, arm_state, task>>]_vars

\* C17: after stop_robotics the mode is emergency_stop and cancel and
\* disconnect have been sent to every print-server and the arm has been
\* stopped, also when a request to a print-server fails
C17_StopReachesEveryDevice ==
    [][stop_sent' # {}
       => /\ mode' = "emergency_stop"
          /\ stop_sent' = {StopRequests[i] : i \in 1..Len(StopRequests)}]_vars

\* C18: when an upload, an arm move or a wait loop of a routine fails, the
\* routine ends in the same step with stop_robotics called, the mode
\* emergency_stop and the handler returning done = 'error'
C18_FailureStopsRoutine ==
    [][("hw_fail" \in did')
       => /\ mode' = "emergency_stop"
          /\ stop_sent' # {}
          /\ reply'.done = "error"
          /\ \E t \in Tasks : task[t].pc # "free" /\ task'[t].pc = "free"]_vars

C18_Witness ==
    /\ "hw_fail" \in did
    /\ reply.done = "error"
    /\ reply.routine = "influx"
    /\ mode = "emergency_stop"

\* C19: the dispense phase of a fluidic event is entered only from the
\* aspirate wait loop, after every aspirate upload has ended and by a status
\* poll in which every print-server reported its aspirate job done
C19_DispenseAfterAspirate ==
    [][\A t \in Tasks :
          (task'[t].pc \in {"disp_group", "disp_paused"}
              /\ task[t].pc \notin {"disp_group", "disp_paused"})
          => /\ task[t].pc = "asp_wait"
             /\ task[t].ups = Octos
             /\ "complete" \in did']_vars

C19_Witness ==
    \E t \in Tasks :
        /\ task[t].pc = "disp_group"
        /\ task[t].ups = {}
        /\ "complete" \in did

\* C20: the arm path of a fluidic event runs in the group of the aspirate
\* uploads, and its three moves are done before the event is past that
\* group, so before any dispense upload starts
C20_ArmBeforeDispense ==
    \A t \in Tasks :
        /\ task[t].pc \in {"asp_wait", "disp_paused", "disp_group",
                            "disp_wait"}
              => (task[t].arm # "none" => task[t].armstep = 3)
        /\ task[t].armstep > 0 => task[t].arm # "none"

C20_Witness ==
    \E t \in Tasks :
        /\ task[t].pc = "disp_group"
        /\ task[t].arm = "delay"
        /\ task[t].armstep = 3

\* C27: a prime_influx request that finds the influx pumps primed and the
\* mode idle returns done = false, uploads nothing, and leaves the prime
\* status and the mode as they are
C27_PrimeIdempotent ==
    [][("request" \in did' /\ reply'.routine = "prime_influx"
          /\ prime_status.influx /\ mode = "idle")
          => /\ reply'.done = "false"
             /\ did' = {"request"}
             /\ prime_status'.influx
             /\ mode' = "idle"]_vars

\* C28: when an accepted prime_efflux has sent the efflux command, the
\* efflux pumps count as primed
C28_EffluxPrimed ==
    [][\A t \in Tasks :
          (task[t].pc = "enter" /\ task[t].routine = "prime_efflux"
             /\ "efflux" \in did')
             => prime_status'.efflux]_vars

\* C29: whatever a routine handler ends with is a record whose done field
\* is true, false or 'error'
C29_HandlerReturnsRecord ==
    [][reply' # NoReply => reply'.done \in {"true", "false", "error"}]_vars

\* C30: a wait loop never goes on after check_status_timeout status polls
\* that did not find all jobs done
C30_PollsBounded ==
    \A t \in Tasks :
       task[t].pc \in {"asp_wait", "disp_wait"}
          => task[t].attempts <= CheckStatusTimeout

(***************************************************************************)
(* Claims on the influx snake routine                                      *)
(***************************************************************************)
\* the instructions of pump p in the fluidic events of the current window
PumpEvents(p) == [k \in 1..Len(issued) |-> issued[k][p]]

\* C22: when a window is finished, the events of each of its pumps are, in
\* this order, floor(S / M) events with instruction M and one event with
\* instruction S mod M, any later event of the window having instruction 0
C22_StepsSplit ==
    kpc = "advance" =>
       \A p \in Elems(active_pumps) :
          LET ev == PumpEvents(p)
              st == data.steps[p]
              m == pump_conf.max_steps
              n == st \div m
          IN /\ Len(ev) >= n + 1
             /\ \A k \in 1..Len(ev) :
                   ev[k] = IF k <= n THEN m ELSE IF k = n + 1 THEN st % m ELSE 0

\* the pumps have one fluid type
OneFluidType ==
    Cardinality({pump_conf.pump_types[i] : i \in 1..pump_num}) = 1

\* the window that slides one vial at a time: window w of a row holds the
\* vials w - P + 1 .. w of the row that exist
SlidingWindow(row, w) ==
    Slice(vial_map[row + 1], IF w < pump_num THEN 0 ELSE w - pump_num + 1,
          w + 1)

\* C23: with pumps of one fluid type window x of a row is the sliding
\* window: [0], [0,1], [1,2], ... [5] for two pumps and row 0
C23_SlidingWindows ==
    (kpc \in {"wash", "split"} /\ OneFluidType)
       => vial_window = SlidingWindow(row_num, x)

\* C24: at every window the vial window and the active pumps have the same
\* length, at most pump_num
C24_WindowMatchesPumps ==
    kpc \in {"wash", "split"} =>
       /\ Len(vial_window) = Len(active_pumps)
       /\ Len(active_pumps) <= pump_num

\* the vials of a row in snake order
SnakeRow(row) == [i \in 1..6 |-> IF row = 1 THEN 12 - i ELSE 6 * row + i - 1]

\* C25: the window of a row is a stretch of the row in snake order, led in
\* row 1 by the last pump and by the first otherwise; the arm target
\* changes in the first event of a window only, by -18 in y after a row
\* change and else by +18 in x in rows 0 and 2 and -18 in x in row 1
C25_SnakeOrder ==
    [][/\ (kpc = "window" /\ kpc' # "window") =>
             /\ \E a \in 0..6 :
                   vial_window' =
                      Slice(SnakeRow(row_num), a, a + Len(vial_window'))
             /\ \A i \in 1..(Len(active_pumps') - 1) :
                   active_pumps'[i + 1] =
                      active_pumps'[i] + (IF row_num = 1 THEN -1 ELSE 1)
             /\ x = 0 => active_pumps'[1] = IF row_num = 1 THEN pump_num ELSE 1
       /\ (kpc = "event" /\ ~arm_moved /\ arm_moved') =>
             vial_dilution_coordinates' =
                IF change_row
                THEN <<vial_dilution_coordinates[1],
                       vial_dilution_coordinates[2] - 18>>
                ELSE <<vial_dilution_coordinates[1]
                          + (IF row_num = 1 THEN -18 ELSE 18),
                       vial_dilution_coordinates[2]>>
       /\ (kpc \in {"window", "wash", "split", "advance"}
              \/ (kpc = "event" /\ arm_moved))
             => vial_dilution_coordinates' = vial_dilution_coordinates]_vars

\* the second window of row 1 is finished: the arm went left
C25_Witness ==
    /\ kpc = "advance"
    /\ row_num = 1
    /\ x = 1
    /\ vial_dilution_coordinates = <<90, 18>>
    /\ vial_window = <<11, 10>>

\* C26: the step that ends a quad, the arm lifted, sends the efflux command
\* twice in dilution mode and not at all in another mode; no other step
\* sends it
C26_EffluxTwice ==
    [][emitted' = IF kpc = "quad_end" /\ helper_result' # "error"
                     /\ data.mode = "dilution"
                  THEN 2 ELSE 0]_vars

(***************************************************************************)
(* Claims on the data of a command                                         *)
(***************************************************************************)
\* a response that passes every validation the protocol names: the address
\* of the parameter in front, the terminator at the end, the expected number
\* of fields, a DATA or ECHO character first, and for ECHO the fields sent
WellFormed(resp, sent_fields) ==
    /\ Len(resp) >= 2
    /\ resp[1] = Address
    /\ resp[Len(resp)] = EndIncoming
    /\ LET rd == ReturnedData(resp) IN
       /\ Len(rd) = FieldsIn
       /\ rd[1] \in {DataChar, EchoChar}
       /\ rd[1] = EchoChar => Tail(rd) = SubSeq(sent_fields, 3,
                                                Len(sent_fields))

\* C11: a frame is written only when the number of outgoing fields (the
\* command character and the values) is fields_expected_outgoing, a response
\* is accepted only when its number of fields is fields_expected_incoming,
\* and a round-trip that does not conform ends in an error, not accepted
C11_FieldCounts ==
    fpc = "done" =>
        /\ frame # <<>> => Len(value) + 1 = FieldsOut
        /\ (acks # <<>> \/ returned.kind \in {"data", "None"})
              => /\ frame # <<>>
                 /\ Len(ReturnedData(response)) = FieldsIn
        /\ (Len(value) + 1 # FieldsOut
              \/ (frame # <<>> /\ Len(ReturnedData(response)) # FieldsIn))
              => /\ acks = <<>>
                 /\ returned.kind \in {"TypeError", "EvolverSerialError",
                                       "IndexError"}

\* a frame went out and the response came with a wrong number of fields
C11_Witness ==
    /\ fpc = "done"
    /\ frame # <<>>
    /\ Len(value) + 1 = FieldsOut
    /\ Len(response) >= 2 /\ response[1] = Address
    /\ response[Len(response)] = EndIncoming
    /\ Len(ReturnedData(response)) # FieldsIn
    /\ returned.kind = "EvolverSerialError"

\* C12: when the response to a frame fails a validation, no ACK frame is
\* written, and run_commands goes on without the command: nothing is
\* written again and the command is gone
C12_FailedValidation ==
    [][(fpc = "done" /\ frame # <<>> /\ ~WellFormed(response, frame))
       => /\ acks = <<>>
          /\ returned.kind = "EvolverSerialError"
          /\ fpc' = "idle"
          /\ frame' = <<>> /\ acks' = <<>>
          /\ value' = <<>> /\ comm_type' = "none"]_vars

\* an ECHO response whose fields differ from the fields sent
C12_Witness ==
    /\ fpc = "done"
    /\ frame # <<>>
    /\ Len(response) = FieldsIn + 2
    /\ response[1] = Address /\ response[2] = EchoChar
    /\ response[Len(response)] = EndIncoming
    /\ ~WellFormed(response, frame)
    /\ acks = <<>>

\* C13: for a validated round-trip serial_communication returns the fields
\* after the response character when it is DATA and None when it is ECHO,
\* and writes exactly one ACK frame, ACK first and every other field empty
C13_ReturnAndAck ==
    (fpc = "done" /\ frame # <<>> /\ WellFormed(response, frame))
    => /\ Len(acks) = 1
       /\ Len(acks[1]) = FieldsOut + 1
       /\ acks[1][1] = Address /\ acks[1][2] = AckChar
       /\ \A i \in 3..Len(acks[1]) : acks[1][i] = ""
       /\ response[2] = DataChar
            => returned = [kind |-> "data",
                           data |-> SubSeq(response, 3, Len(response) - 1)]
       /\ response[2] = EchoChar => returned.kind = "None"

C13_Witness ==
    /\ fpc = "done"
    /\ frame # <<>>
    /\ WellFormed(response, frame)
    /\ response[2] = DataChar
    /\ returned.kind = "data"
    /\ Len(returned.data) = FieldsIn - 1

\* C15: the update of a stored list by the list value of a command event
\* keeps the length of the stored list, keeps every slot whose update is
\* 'NaN' and gives every other slot its update value
C15_NaNPartialUpdate ==
    [][/\ Len(conf_value') = Len(conf_value)
       /\ (fpc = "idle" /\ fpc' = "queued" /\ comm_type' = IMMEDIATE)
             => \A i \in 1..Len(conf_value) :
                   conf_value'[i] =
                      IF i <= Len(value') /\ value'[i] # "NaN"
                      THEN value'[i] ELSE conf_value[i]]_vars

\* stored [a, b, ...] updated with [NaN, x]
C15_Witness ==
    /\ fpc = "queued"
    /\ comm_type = IMMEDIATE
    /\ value = <<"NaN", "x">>
    /\ Len(conf_value) = FieldsOut - 1
    /\ conf_value[1] = "a" /\ conf_value[2] = "x"

(***************************************************************************)
(* Claims on the upload of a G-code file                                   *)
(***************************************************************************)
\* C31: a call of post_gcode makes a bounded number of uploads: it makes at
\* most post_gcode_timeout + 1 of them, and a call that ended without
\* returning ended with OctoPrintError.
C31_BoundedUploads ==
    /\ uploads <= post_gcode_timeout + 1
    /\ (ppc = "ended" /\ post_outcome # "returned")
          => post_outcome = "OctoPrintError"

\* C35: an influx routine requested without the wash step that ends with
\* no hardware failure and no emergency stop has returned done = true and
\* left the mode idle.
C35_InfluxWithoutWash ==
    [][\A t \in Tasks :
          (/\ task[t].routine = "influx" /\ ~task[t].wash
           /\ task[t].pc # "free" /\ task'[t].pc = "free"
           /\ "hw_fail" \notin did' /\ ~task[t].estop_seen
           /\ mode' # "emergency_stop")
             => (reply'.done = "true" /\ mode' = "idle")]_vars

\* C38: a routine that ends leaves the mode idle, pause or emergency_stop,
\* whether it ends by success, by refusal or by an exception.
C38_NoRoutineModeLeft ==
    [][\A t \in Tasks :
          (task[t].pc # "free" /\ task'[t].pc = "free")
             => mode' \in {"idle", "pause", "emergency_stop"}]_vars

\* C36: at most one fluidic routine is executing at any time.
C36_OneRoutine ==
    Cardinality({t \in Tasks : task[t].pc # "free"}) <= 1

\* C39: in a sliding-window pass over a row no vial is served by the same
\* pump twice: a vial that is in two successive windows of the row is
\* paired with different pumps in them.
C39_EachPumpOnce ==
    [][(/\ kpc = "window" /\ kpc' \in {"wash", "split"}
        /\ uniform_pump_types)
          => \A i \in 1..Len(vial_window), j \in 1..Len(vial_window') :
                vial_window[i] = vial_window'[j]
                   => active_pumps[i] # active_pumps'[j]]_vars

(***************************************************************************)
(* Claims on the arm callbacks                                             *)
(***************************************************************************)
\* C32: an arm callback that reports a nonzero error_code or state 4 sets
\* the mode to emergency_stop and calls stop_robotics; a callback that
\* reports a warning without an error, or a connection change, leaves the
\* mode as it was and stops nothing.
C32_ArmCallbacks ==
    [][/\ ("error" \in did' \/ ("state" \in did' /\ arm_state' = 4))
             => (mode' = "emergency_stop" /\ stop_sent' # {})
       /\ (("warn" \in did' /\ "error" \notin did') \/ "connect" \in did')
             => (mode' = mode /\ stop_sent' = {})]_vars

\* a warning-only report has left a running routine's mode alone
C32_Witness ==
    /\ did = {"warn"}
    /\ mode \notin {"idle", "emergency_stop"}
    /\ stop_sent = {}

====
